---------------------------- MODULE Spec2Model ----------------------------
(***************************************************************************)
(* bloodq: the provider adapter of src/app/api/analyze/route.ts.           *)
(*                                                                         *)
(* One POST handler receives an analysis request, picks the caller's key   *)
(* from the provider's header, and calls analyzeBloodTest, which validates *)
(* the request, builds one provider-specific HTTP call, awaits the reply   *)
(* and decodes it into a tagged success/failure result.                    *)
(*                                                                         *)
(* JavaScript values are tagged records ([t |-> type, v |-> payload]) so   *)
(* that undefined, null, strings, objects and arrays stay distinct.        *)
(* Strings are TLA+ strings, except the image, which is a tuple of tokens  *)
(* (the delimiters ':' ';' ',' are tokens of their own) so that            *)
(* String.prototype.split can be computed.                                 *)
(***************************************************************************)
EXTENDS Integers, Sequences, FiniteSets, TLC

(***************************************************************************)
(* JavaScript values                                                       *)
(***************************************************************************)
JUndef == [t |-> "undefined"]

JNull == [t |-> "null"]

JStr(s) == [t |-> "string", v |-> s]

JNum(s) == [t |-> "number", v |-> s]

JObj(r) == [t |-> "object", v |-> r]

JArr(s) == [t |-> "array", v |-> s]

\* ToBoolean: undefined, null and the empty string are falsy.
Truthy(x) ==
  CASE x.t = "string" -> Len(x.v) > 0
    [] x.t \in {"object", "array"} -> TRUE
    [] x.t = "number" -> x.v # "0"
    [] OTHER -> FALSE

\* a || b
Or(a, b) == IF Truthy(a) THEN a ELSE b

\* `${x}` in a template literal
ToJsString(x) ==
  CASE x.t = "string" -> x.v
    [] x.t = "undefined" -> "undefined"
    [] x.t = "null" -> "null"
    [] x.t = "number" -> x.v

\* An expression either yields a value or throws.
Normal(v) == [thrown |-> FALSE, val |-> v]

Thrown(e) == [thrown |-> TRUE, err |-> e]

\* new Error(message), and the engine's TypeError / SyntaxError
ErrorObj(name, message) == [isError |-> TRUE, name |-> name, message |-> message]

\* a thrown value that is not an Error instance
NonError == [isError |-> FALSE, name |-> "", message |-> ""]

\* base[key]: reading a property of undefined or null throws a TypeError,
\* a missing property reads as undefined.  Array indices are the keys
\* "0", "1", ...; only index "0" is ever read.
GetProp(base, key) ==
  CASE base.t \in {"undefined", "null"} ->
         Thrown(ErrorObj("TypeError",
                  "Cannot read properties of " \o base.t
                    \o " (reading '" \o key \o "')"))
    [] base.t = "object" ->
         Normal(IF key \in DOMAIN base.v THEN base.v[key] ELSE JUndef)
    [] base.t = "array" ->
         Normal(IF key = "0" /\ Len(base.v) >= 1 THEN base.v[1] ELSE JUndef)
    [] base.t = "number" -> Normal(JUndef)
    [] base.t = "string" /\ key # "0" -> Normal(JUndef)

\* base[path[1]][path[2]]... evaluated left to right
RECURSIVE GetPath(_, _)
GetPath(base, path) ==
  IF path = <<>> THEN Normal(base)
  ELSE LET r == GetProp(base, Head(path))
       IN  IF r.thrown THEN r ELSE GetPath(r.val, Tail(path))

\* JSON.stringify, seen as the document it puts on the wire: a property
\* whose value is undefined is dropped, an undefined array element is null.
RECURSIVE JsonDoc(_)
JsonDoc(x) ==
  CASE x.t = "object" ->
         JObj([k \in {j \in DOMAIN x.v : x.v[j].t # "undefined"} |-> JsonDoc(x.v[k])])
    [] x.t = "array" ->
         JArr([i \in DOMAIN x.v |->
                 IF x.v[i].t = "undefined" THEN JNull ELSE JsonDoc(x.v[i])])
    [] OTHER -> x

\* s.split(d) on a token string: the pieces between occurrences of d
RECURSIVE Split(_, _)
Split(s, d) ==
  IF \E i \in 1..Len(s) : s[i] = d
  THEN LET i == CHOOSE j \in 1..Len(s) :
                  s[j] = d /\ \A k \in 1..(j - 1) : s[k] # d
       IN  <<SubSeq(s, 1, i - 1)>> \o Split(SubSeq(s, i + 1, Len(s)), d)
  ELSE <<s>>

\* arr[i] of a split result (0-based i): a string, or undefined past the end
Piece(arr, i) == IF i + 1 <= Len(arr) THEN JStr(arr[i + 1]) ELSE JUndef


(***************************************************************************)
(* route.ts: constants and request builders                                *)
(***************************************************************************)
ANALYSIS_PROMPT ==
  "\nYou are a medical expert analyzing a blood test result. \n"
    \o "Examine the image of the blood test results and provide a detailed analysis including:\n"
    \o "\n1. A summary of the test results\n"
    \o "2. Identification of any abnormal values and their significance\n"
    \o "3. Potential health implications based on these results\n"
    \o "4. General recommendations (NOT medical advice)\n"
    \o "\nPresent this information in a clear, organized format.\n"

getApiEndpoint(provider) ==
  CASE provider = JStr("gemini") ->
         Normal("https://generativelanguage.googleapis.com/v1beta/models/gemini-1.5-flash:generateContent")
    [] provider = JStr("openai") ->
         Normal("https://api.openai.com/v1/chat/completions")
    [] provider = JStr("claude") ->
         Normal("https://api.anthropic.com/v1/messages")
    [] OTHER ->
         Thrown(ErrorObj("Error", "Unsupported provider: " \o ToJsString(provider)))

\* Faulty variant: the context is appended without its label.
BuildPrompt_NoLabel(contextText) ==
  IF Truthy(contextText)
  THEN ANALYSIS_PROMPT \o "\n\n" \o ToJsString(contextText)
  ELSE ANALYSIS_PROMPT

\* contextText ? `${ANALYSIS_PROMPT}\n\nAdditional context provided by user: ${contextText}`
\*             : ANALYSIS_PROMPT
BuildPrompt(contextText) ==
  IF Truthy(contextText)
  THEN ANALYSIS_PROMPT \o "\n\nAdditional context provided by user: "
         \o ToJsString(contextText)
  ELSE ANALYSIS_PROMPT

\* Faulty variant: the environment default wins over the caller's key.
GeminiApiKeyToUse_EnvFirst(apiKey, envKey) == Or(envKey, apiKey)

\* apiKey || process.env.GOOGLE_GEMINI_API_KEY
GeminiApiKeyToUse(apiKey, envKey) == Or(apiKey, envKey)

\* Faulty variant: the prefix stays on the payload.
ExtractBase64Data_KeepPrefix(imageBase64) == imageBase64

\* imageBase64.split(',')[1]: what follows the first comma
ExtractBase64Data(imageBase64) == Piece(Split(imageBase64.v, ","), 1)

\* Faulty variant: the type is fixed, as in the gemini builder.
ExtractMimeType_AlwaysJpeg(imageBase64) == JStr(<<"image/jpeg">>)

\* imageBase64.split(';')[0].split(':')[1]: between the first colon and the
\* first semicolon
ExtractMimeType(imageBase64) ==
  Piece(Split(Split(imageBase64.v, ";")[1], ":"), 1)

prepareGeminiRequest(imageBase64, contextText, apiKey, envKey) ==
  LET apiKeyToUse == GeminiApiKeyToUse(apiKey, envKey)
      base64Data == ExtractBase64Data(imageBase64)
      prompt == BuildPrompt(contextText)
  IN  IF ~Truthy(apiKeyToUse)
      THEN Thrown(ErrorObj("Error", "No Gemini API key provided"))
      ELSE Normal(
        [url |-> getApiEndpoint(JStr("gemini")).val \o "?key=" \o ToJsString(apiKeyToUse),
         options |->
           [method |-> "POST",
            headers |-> ("Content-Type" :> "application/json"),
            body |-> JsonDoc(JObj(
              [contents |-> JArr(<<JObj(
                 [parts |-> JArr(<<
                    JObj([text |-> JStr(prompt)]),
                    JObj([inline_data |-> JObj(
                       [mime_type |-> JStr("image/jpeg"),
                        data |-> base64Data])])>>)])>>),
               generationConfig |-> JObj(
                 [temperature |-> JNum("0.1"),
                  maxOutputTokens |-> JNum("2048")])]))]])

\* Faulty variant: the key check is missing.
prepareOpenAIRequest_NoKeyCheck(imageBase64, contextText, apiKey) ==
  Normal(
    [url |-> getApiEndpoint(JStr("openai")).val,
     options |->
       [method |-> "POST",
        headers |-> ("Content-Type" :> "application/json")
                      @@ ("Authorization" :> ("Bearer " \o ToJsString(apiKey))),
        body |-> JsonDoc(JObj(
          [model |-> JStr("gpt-4-vision-preview"),
           messages |-> JArr(<<JObj(
             [role |-> JStr("user"),
              content |-> JArr(<<
                JObj([type |-> JStr("text"), text |-> JStr(BuildPrompt(contextText))]),
                JObj([type |-> JStr("image_url"),
                      image_url |-> JObj([url |-> imageBase64])])>>)])>>),
           max_tokens |-> JNum("2048"),
           temperature |-> JNum("0.1")]))]])

prepareOpenAIRequest(imageBase64, contextText, apiKey) ==
  LET prompt == BuildPrompt(contextText)
  IN  IF ~Truthy(apiKey)
      THEN Thrown(ErrorObj("Error", "No OpenAI API key provided"))
      ELSE Normal(
        [url |-> getApiEndpoint(JStr("openai")).val,
         options |->
           [method |-> "POST",
            headers |-> ("Content-Type" :> "application/json")
                          @@ ("Authorization" :> ("Bearer " \o ToJsString(apiKey))),
            body |-> JsonDoc(JObj(
              [model |-> JStr("gpt-4-vision-preview"),
               messages |-> JArr(<<JObj(
                 [role |-> JStr("user"),
                  content |-> JArr(<<
                    JObj([type |-> JStr("text"), text |-> JStr(prompt)]),
                    JObj([type |-> JStr("image_url"),
                          image_url |-> JObj([url |-> imageBase64])])>>)])>>),
               max_tokens |-> JNum("2048"),
               temperature |-> JNum("0.1")]))]])

prepareClaudeRequest(imageBase64, contextText, apiKey) ==
  LET base64Data == ExtractBase64Data(imageBase64)
      mimeType == ExtractMimeType(imageBase64)
      prompt == BuildPrompt(contextText)
  IN  IF ~Truthy(apiKey)
      THEN Thrown(ErrorObj("Error", "No Claude API key provided"))
      ELSE Normal(
        [url |-> getApiEndpoint(JStr("claude")).val,
         options |->
           [method |-> "POST",
            headers |-> ("Content-Type" :> "application/json")
                          @@ ("x-api-key" :> ToJsString(apiKey))
                          @@ ("anthropic-version" :> "2023-06-01"),
            body |-> JsonDoc(JObj(
              [model |-> JStr("claude-3-opus-20240229"),
               max_tokens |-> JNum("2048"),
               temperature |-> JNum("0.1"),
               messages |-> JArr(<<JObj(
                 [role |-> JStr("user"),
                  content |-> JArr(<<
                    JObj([type |-> JStr("text"), text |-> JStr(prompt)]),
                    JObj([type |-> JStr("image"),
                          source |-> JObj(
                            [type |-> JStr("base64"),
                             media_type |-> mimeType,
                             data |-> base64Data])])>>)])>>)]))]])

\* The property path each provider's reply is read along (route.ts 198-208).
ExtractionPath(provider) ==
  CASE provider = JStr("gemini") ->
         <<"candidates", "0", "content", "parts", "0", "text">>
    [] provider = JStr("openai") -> <<"choices", "0", "message", "content">>
    [] provider = JStr("claude") -> <<"content", "0", "text">>
    [] OTHER -> <<>>

\* Faulty variant: the gemini and claude cases are missing, so their
\* resultText stays ''.
ExtractResultText_OpenAIOnly(provider, data) ==
  IF provider = JStr("openai")
  THEN GetPath(data, ExtractionPath(provider))
  ELSE Normal(JStr(""))

\* resultText after the second switch: '' when no case matches
ExtractResultText(provider, data) ==
  IF ExtractionPath(provider) = <<>>
  THEN Normal(JStr(""))
  ELSE GetPath(data, ExtractionPath(provider))

\* The catch block of analyzeBloodTest: every thrown value becomes a
\* returned failure result.
Return(v) == [kind |-> "return", value |-> v]

Throw(e) == [kind |-> "throw", error |-> e]

\* Faulty variant: only errors thrown by the adapter's own code are caught; an
\* engine error escapes to the caller.
CatchBlock_TypeErrorEscapes(error) ==
  IF error.name = "Error"
  THEN Return([success |-> FALSE, error |-> error.message])
  ELSE Throw(error)

CatchBlock(error) ==
  Return([success |-> FALSE,
          error |-> IF error.isError THEN error.message
                    ELSE "Unknown error occurred"])


(***************************************************************************)
(* The environment: what a caller may post and what the provider may       *)
(* answer.                                                                 *)
(***************************************************************************)
\* The three recognised identifiers, one unrecognised, and none at all.
Providers ==
  {JStr("gemini"), JStr("openai"), JStr("claude"), JStr("mistral"), JUndef}

KnownProviders == {JStr("gemini"), JStr("openai"), JStr("claude")}

\* Absent, empty, two data URIs, and a bare payload with no prefix.
Images ==
  {JUndef,
   JStr(<<>>),
   JStr(<<"data", ":", "image/jpeg", ";", "base64", ",", "AAAA">>),
   JStr(<<"data", ":", "image/png", ";", "base64", ",", "iVBORw0KGgo=">>),
   JStr(<<"AAAA">>)}

Contexts == {JUndef, JStr(""), JStr("Fasting sample, patient is 54.")}

\* request.headers.get(name): null when the header is absent
HeaderNames == {"x-gemini-key", "x-openai-key", "x-claude-key"}

HeaderValues(name) == {JNull, JStr(""), JStr("user-" \o name)}

\* process.env.GOOGLE_GEMINI_API_KEY
EnvValues == {JUndef, JStr(""), JStr("server-gemini-key")}

\* Date.now() at the moment the result is built
DateNow == {1000, 2000}

EmptyObj == JObj(<<>>)

EmptyArr == JArr(<<>>)

\* The document in which `leaf` sits at `path`.
RECURSIVE Build(_, _)
Build(path, leaf) ==
  IF path = <<>> THEN leaf
  ELSE IF Head(path) = "0"
       THEN JArr(<<Build(Tail(path), leaf)>>)
       ELSE JObj([k \in {Head(path)} |-> Build(Tail(path), leaf)])

ReplyTexts == {"Hemoglobin is slightly low.", ""}

\* What stands where the rest of the path is missing.
Stubs == {EmptyObj, EmptyArr, JNull}

\* Every provider's documented reply, and every truncation of it: the
\* path cut after d keys, d < Len(path), so that key d+1 is missing.
ReplyDocs ==
  UNION {
    {Build(ExtractionPath(pr), JStr(txt)) : txt \in ReplyTexts}
      \cup {Build(SubSeq(ExtractionPath(pr), 1, d), stub) :
              d \in 0..(Len(ExtractionPath(pr)) - 1), stub \in Stubs}
    : pr \in KnownProviders}

\* JSON text of a document (objects here hold at most one key).
RECURSIVE Stringify(_)
Stringify(x) ==
  CASE x.t = "string" -> "\"" \o x.v \o "\""
    [] x.t = "number" -> x.v
    [] x.t = "null" -> "null"
    [] x.t = "array" ->
         IF Len(x.v) = 0 THEN "[]" ELSE "[" \o Stringify(x.v[1]) \o "]"
    [] x.t = "object" ->
         IF DOMAIN x.v = {} THEN "{}"
         ELSE LET k == CHOOSE j \in DOMAIN x.v : TRUE
              IN  "{\"" \o k \o "\":" \o Stringify(x.v[k]) \o "}"

\* A reply body: its text, and what response.json() makes of it.
ReplyBodies ==
  {[text |-> Stringify(d), json |-> Normal(d)] : d \in ReplyDocs}
    \cup {[text |-> "Unauthorized",
           json |-> Thrown(ErrorObj("SyntaxError",
                      "Unexpected token 'U', \"Unauthorized\" is not valid JSON"))]}

Statuses == {200, 401, 500}

\* response.ok
IsOk(status) == status >= 200 /\ status <= 299

\* How the promise returned by fetch settles: fulfilled with a response,
\* or rejected (a transport fault) with an Error or with some other value.
FetchOutcomes ==
  {Normal([status |-> st, body |-> b]) : st \in Statuses, b \in ReplyBodies}
    \cup {Thrown(ErrorObj("TypeError", "fetch failed")), Thrown(NonError)}


\* What two overlapping exchanges are fed: an empty image and a data URI,
\* every provider identifier, every header present or none, and five ways
\* the provider call may settle.
OverlapImages ==
  {JStr(<<>>), JStr(<<"data", ":", "image/jpeg", ";", "base64", ",", "AAAA">>)}

OverlapProviders ==
  {JStr("gemini"), JStr("openai"), JStr("claude"), JStr("mistral")}

OverlapHeaders ==
  {[n \in HeaderNames |-> JNull], [n \in HeaderNames |-> JStr("user-" \o n)]}

OverlapOutcomes ==
  {Normal([status |-> 200,
           body |-> [text |-> Stringify(Build(ExtractionPath(pr), JStr("Hemoglobin is slightly low."))),
                     json |-> Normal(Build(ExtractionPath(pr), JStr("Hemoglobin is slightly low.")))]]) :
     pr \in KnownProviders}
    \cup {Normal([status |-> 401,
                  body |-> [text |-> "Unauthorized",
                            json |-> Thrown(ErrorObj("SyntaxError",
                              "Unexpected token 'U', \"Unauthorized\" is not valid JSON"))]]),
          Thrown(ErrorObj("TypeError", "fetch failed"))}


(***************************************************************************)
(* State                                                                   *)
(***************************************************************************)
\* Invocation slots: each holds one POST exchange at a time.
Slots == {1, 2}

NoValue == [none |-> TRUE]

VARIABLES
  env,           \* process.env.GOOGLE_GEMINI_API_KEY
  live,          \* the slots that take requests
  pc,            \* where each slot's handler stands
  request,       \* analyzeBloodTest's request argument
  headers,       \* the incoming request's headers
  userApiKey,    \* analyzeBloodTest's userApiKey argument
  branch,        \* the case of the first switch the invocation took
  fetchConfig,   \* the provider call built by the prepare function
  outbound,      \* the fetch calls issued by the invocation, in order
  response,      \* how the awaited fetch settled
  data,          \* the parsed reply
  completion,    \* how analyzeBloodTest completed: return or throw
  httpResponse,  \* what POST answered
  stages         \* the stages the invocation went through, in order

\* The browser side (settings.ts, page.tsx)
VARIABLES
  clock,               \* the browser's clock, Date.now(), in milliseconds
  settingsStore,       \* localStorage['bloodq_user_settings'], parsed
  usageStore,          \* localStorage['bloodq_usage_limits'], parsed
  defaultUsageLimits,  \* the module-level object of that name
  lastCall,            \* the settings function last called directly, and what it returned
  successLog,          \* when the latest such keyless trackImageProcessed calls succeeded
  page,                \* the state of the Home component (page.tsx 22-32)
  requests,            \* the fetch calls made by handleAnalyze, in order
  inflight,            \* which of them have not settled yet
  analyzeCalls         \* how often handleAnalyze has been called

serverVars ==
  <<env, live, pc, request, headers, userApiKey, branch, fetchConfig,
    outbound, response, data, completion, httpResponse, stages>>

usageVars ==
  <<clock, settingsStore, usageStore, defaultUsageLimits, lastCall, successLog>>

pageVars == <<page, requests, inflight, analyzeCalls>>

clientVars == <<usageVars, pageVars>>

vars == <<serverVars, clientVars>>

\* No exchange is in progress.
NoExchange ==
  /\ pc = [p \in Slots |-> "idle"]
  /\ request = [p \in Slots |-> NoValue]
  /\ headers = [p \in Slots |-> NoValue]
  /\ userApiKey = [p \in Slots |-> NoValue]
  /\ branch = [p \in Slots |-> ""]
  /\ fetchConfig = [p \in Slots |-> NoValue]
  /\ outbound = [p \in Slots |-> <<>>]
  /\ response = [p \in Slots |-> NoValue]
  /\ data = [p \in Slots |-> NoValue]
  /\ completion = [p \in Slots |-> NoValue]
  /\ httpResponse = [p \in Slots |-> NoValue]
  /\ stages = [p \in Slots |-> <<>>]

\* A browser that has never been here loads the page: nothing is stored,
\* and the module's default usage limits are stamped with the load time.
InitClient ==
  /\ clock = 0
  /\ settingsStore = NoValue
  /\ usageStore = NoValue
  /\ defaultUsageLimits =
       [processedImages |-> [count |-> 0, lastResetTime |-> 0]]
  /\ lastCall = NoValue
  /\ successLog = <<>>
  /\ page =
       [mounted |-> FALSE,
        imageBase64 |-> "",
        contextText |-> JStr(<<>>),
        isLoading |-> FALSE,
        error |-> JNull,
        result |-> JNull,
        showSettings |-> FALSE,
        provider |-> "gemini",
        hasApiKey |-> FALSE,
        showResults |-> FALSE,
        remainingImages |-> 2,
        resetTime |-> 0]
  /\ requests = <<>>
  /\ inflight = {}
  /\ analyzeCalls = 0

Init ==
  /\ env \in EnvValues
  /\ live = {1}
  /\ NoExchange
  /\ InitClient

(***************************************************************************)
(* POST (route.ts 227-253)                                                 *)
(***************************************************************************)
\* Faulty variant: every provider but gemini reads x-claude-key.
HeaderFor_Mixed(provider) ==
  IF provider = JStr("gemini") THEN "x-gemini-key" ELSE "x-claude-key"

\* requestData.provider === 'gemini' ? x-gemini-key
\*   : requestData.provider === 'openai' ? x-openai-key : x-claude-key
HeaderFor(provider) ==
  IF provider = JStr("gemini") THEN "x-gemini-key"
  ELSE IF provider = JStr("openai") THEN "x-openai-key"
  ELSE "x-claude-key"

\* userApiKey || undefined
SelectUserApiKey(provider, hdrs) == Or(hdrs[HeaderFor(provider)], JUndef)

\* POST with a body that parses: it reads the provider's header and calls
\* analyzeBloodTest.
Accept(p, img, ctx, prov, hdrs) ==
  /\ request' = [request EXCEPT ![p] =
       [imageBase64 |-> img, contextText |-> ctx, provider |-> prov]]
  /\ headers' = [headers EXCEPT ![p] = hdrs]
  /\ userApiKey' = [userApiKey EXCEPT ![p] = SelectUserApiKey(prov, hdrs)]
  /\ pc' = [pc EXCEPT ![p] = "validate"]
  /\ UNCHANGED <<clientVars, env, live, branch, fetchConfig, outbound, response, data,
                 completion, httpResponse, stages>>

\* A request arrives and its body parses.
PostRequest(p) ==
  /\ p \in live
  /\ pc[p] = "idle"
  /\ \E img \in Images, ctx \in Contexts, prov \in Providers,
        hdrs \in [HeaderNames -> UNION {HeaderValues(n) : n \in HeaderNames}] :
       /\ \A n \in HeaderNames : hdrs[n] \in HeaderValues(n)
       /\ Accept(p, img, ctx, prov, hdrs)

\* The same, with the requests two overlapping exchanges are fed.
PostRequestOverlapping(p) ==
  /\ p \in live
  /\ pc[p] = "idle"
  /\ \E img \in OverlapImages, prov \in OverlapProviders, hdrs \in OverlapHeaders :
       Accept(p, img, JUndef, prov, hdrs)

\* The catch block of POST: status 500 with the error's message.
PostCatch(error) ==
  [status |-> 500,
   body |-> [error |-> IF error.isError THEN error.message
                       ELSE "Unknown error occurred"]]

\* A request arrives whose body is not JSON: request.json() throws and
\* analyzeBloodTest is never called.
PostMalformed(p) ==
  /\ p \in live
  /\ pc[p] = "idle"
  /\ pc' = [pc EXCEPT ![p] = "responded"]
  /\ httpResponse' = [httpResponse EXCEPT ![p] =
       PostCatch(ErrorObj("SyntaxError", "Unexpected end of JSON input"))]
  /\ UNCHANGED <<clientVars, env, live, request, headers, userApiKey, branch, fetchConfig,
                 outbound, response, data, completion, stages>>

\* Faulty variant: the result is passed on with the default status.
TranslateResult_AlwaysOk(result) == [status |-> 200, body |-> result]

\* if (!result.success) 400 { error } else 200 result
TranslateResult(result) ==
  IF ~result.success
  THEN [status |-> 400, body |-> [error |-> result.error]]
  ELSE [status |-> 200, body |-> result]

\* analyzeBloodTest has completed: POST answers.
Respond(p) ==
  /\ pc[p] = "returned"
  /\ httpResponse' = [httpResponse EXCEPT ![p] =
       IF completion[p].kind = "throw"
       THEN PostCatch(completion[p].error)
       ELSE TranslateResult(completion[p].value)]
  /\ pc' = [pc EXCEPT ![p] = "responded"]
  /\ UNCHANGED <<clientVars, env, live, request, headers, userApiKey, branch, fetchConfig,
                 outbound, response, data, completion, stages>>

\* The response is on its way and the exchange is over: everything created
\* for it is gone, and the slot takes the next request.
Close(p) ==
  /\ pc[p] = "responded"
  /\ pc' = [pc EXCEPT ![p] = "idle"]
  /\ request' = [request EXCEPT ![p] = NoValue]
  /\ headers' = [headers EXCEPT ![p] = NoValue]
  /\ userApiKey' = [userApiKey EXCEPT ![p] = NoValue]
  /\ branch' = [branch EXCEPT ![p] = ""]
  /\ fetchConfig' = [fetchConfig EXCEPT ![p] = NoValue]
  /\ outbound' = [outbound EXCEPT ![p] = <<>>]
  /\ response' = [response EXCEPT ![p] = NoValue]
  /\ data' = [data EXCEPT ![p] = NoValue]
  /\ completion' = [completion EXCEPT ![p] = NoValue]
  /\ httpResponse' = [httpResponse EXCEPT ![p] = NoValue]
  /\ stages' = [stages EXCEPT ![p] = <<>>]
  /\ UNCHANGED <<clientVars, env, live>>

(***************************************************************************)
(* analyzeBloodTest (route.ts 163-225)                                     *)
(***************************************************************************)
\* The trace with `stage` as its last entry.
Enter(trace, stage) ==
  IF trace # <<>> /\ trace[Len(trace)] = stage THEN trace
  ELSE Append(trace, stage)

\* The terminal state a completion stands for.
Terminal(c) ==
  IF c.kind = "return" /\ c.value.success THEN "done" ELSE "failed"

\* The invocation completes with c while in `stage`.
Complete(p, c, stage) ==
  /\ completion' = [completion EXCEPT ![p] = c]
  /\ pc' = [pc EXCEPT ![p] = "returned"]
  /\ stages' = [stages EXCEPT ![p] = Append(Enter(@, stage), Terminal(c))]

\* Faulty variant: only a missing image is rejected, an empty one passes.
ValidateRequest_UndefinedOnly(req) ==
  IF req.imageBase64 = JUndef
  THEN Thrown(ErrorObj("Error", "No image provided"))
  ELSE Normal(req)

\* if (!imageBase64) throw new Error('No image provided')
ValidateRequest(req) ==
  IF ~Truthy(req.imageBase64)
  THEN Thrown(ErrorObj("Error", "No image provided"))
  ELSE Normal(req)

Validate(p) ==
  /\ pc[p] = "validate"
  /\ LET r == ValidateRequest(request[p])
     IN  IF r.thrown
         THEN Complete(p, CatchBlock(r.err), "validate")
         ELSE /\ pc' = [pc EXCEPT ![p] = "select"]
              /\ stages' = [stages EXCEPT ![p] = Append(@, "validate")]
              /\ UNCHANGED completion
  /\ UNCHANGED <<clientVars, env, live, request, headers, userApiKey, branch, fetchConfig,
                 outbound, response, data, httpResponse>>

\* Faulty variant: the default case falls through to the last branch.
SelectBranch_DefaultClaude(provider) ==
  CASE provider = JStr("gemini") -> Normal("gemini")
    [] provider = JStr("openai") -> Normal("openai")
    [] OTHER -> Normal("claude")

\* switch (provider): the branch taken, or the default's throw
SelectBranch(provider) ==
  CASE provider = JStr("gemini") -> Normal("gemini")
    [] provider = JStr("openai") -> Normal("openai")
    [] provider = JStr("claude") -> Normal("claude")
    [] OTHER ->
         Thrown(ErrorObj("Error", "Unsupported provider: " \o ToJsString(provider)))

Select(p) ==
  /\ pc[p] = "select"
  /\ LET r == SelectBranch(request[p].provider)
     IN  IF r.thrown
         THEN /\ Complete(p, CatchBlock(r.err), "select-branch")
              /\ UNCHANGED branch
         ELSE /\ branch' = [branch EXCEPT ![p] = r.val]
              /\ pc' = [pc EXCEPT ![p] = "build"]
              /\ stages' = [stages EXCEPT ![p] = Append(@, "select-branch")]
              /\ UNCHANGED completion
  /\ UNCHANGED <<clientVars, env, live, request, headers, userApiKey, fetchConfig,
                 outbound, response, data, httpResponse>>

\* The prepare function of the branch taken.
PrepareRequest(case, req, apiKey, envKey) ==
  CASE case = "gemini" ->
         prepareGeminiRequest(req.imageBase64, req.contextText, apiKey, envKey)
    [] case = "openai" ->
         prepareOpenAIRequest(req.imageBase64, req.contextText, apiKey)
    [] case = "claude" ->
         prepareClaudeRequest(req.imageBase64, req.contextText, apiKey)

BuildRequest(p) ==
  /\ pc[p] = "build"
  /\ LET r == PrepareRequest(branch[p], request[p], userApiKey[p], env)
     IN  IF r.thrown
         THEN /\ Complete(p, CatchBlock(r.err), "build-request")
              /\ UNCHANGED fetchConfig
         ELSE /\ fetchConfig' = [fetchConfig EXCEPT ![p] = r.val]
              /\ pc' = [pc EXCEPT ![p] = "send"]
              /\ stages' = [stages EXCEPT ![p] = Append(@, "build-request")]
              /\ UNCHANGED completion
  /\ UNCHANGED <<clientVars, env, live, request, headers, userApiKey, branch, outbound, response,
                 data, httpResponse>>

\* Faulty variant: the prepared call is kept in one place for the whole
\* module, so the call sent is the one prepared last by any invocation.
Send_SharedConfig(p) ==
  /\ pc[p] = "send"
  /\ \E q \in Slots :
       /\ fetchConfig[q] # NoValue
       /\ (q # p) => pc[q] = "send"
       /\ (q = p) => \A r \in Slots \ {p} : pc[r] # "send"
       /\ outbound' = [outbound EXCEPT ![p] = Append(@, fetchConfig[q])]
  /\ pc' = [pc EXCEPT ![p] = "await"]
  /\ stages' = [stages EXCEPT ![p] = Append(@, "send")]
  /\ UNCHANGED <<clientVars, env, live, request, headers, userApiKey, branch, fetchConfig,
                 response, data, completion, httpResponse>>

\* fetch(fetchConfig.url, fetchConfig.options): the call goes out and the
\* invocation awaits it.
Send(p) ==
  /\ pc[p] = "send"
  /\ outbound' = [outbound EXCEPT ![p] = Append(@, fetchConfig[p])]
  /\ pc' = [pc EXCEPT ![p] = "await"]
  /\ stages' = [stages EXCEPT ![p] = Append(@, "send")]
  /\ UNCHANGED <<clientVars, env, live, request, headers, userApiKey, branch, fetchConfig,
                 response, data, completion, httpResponse>>

\* The awaited promise settles as o.
Settle(p, o) ==
  /\ response' = [response EXCEPT ![p] = o]
  /\ pc' = [pc EXCEPT ![p] = "settled"]
  /\ UNCHANGED <<clientVars, env, live, request, headers, userApiKey, branch, fetchConfig,
                 outbound, data, completion, httpResponse, stages>>

\* The awaited promise settles.
FetchSettles(p) ==
  /\ pc[p] = "await"
  /\ \E o \in FetchOutcomes : Settle(p, o)

\* The same, with the replies two overlapping exchanges are fed.
FetchSettlesOverlapping(p) ==
  /\ pc[p] = "await"
  /\ \E o \in OverlapOutcomes : Settle(p, o)

\* fetch rejected: the await throws into the catch block.
FetchRejected(p) ==
  /\ pc[p] = "settled"
  /\ response[p].thrown
  /\ Complete(p, CatchBlock(response[p].err), "send")
  /\ UNCHANGED <<clientVars, env, live, request, headers, userApiKey, branch, fetchConfig,
                 outbound, response, data, httpResponse>>

\* Faulty variant: the body text is left out of the message.
ApiError_StatusOnly(resp) ==
  ErrorObj("Error", "API Error (" \o ToString(resp.status) \o ")")

\* throw new Error(`API Error (${response.status}): ${errorText}`)
ApiError(resp) ==
  ErrorObj("Error",
    "API Error (" \o ToString(resp.status) \o "): " \o resp.body.text)

\* Faulty variant: a non-success status sends the request again.
HttpError_Retry(p) ==
  /\ pc[p] = "settled"
  /\ ~response[p].thrown
  /\ ~IsOk(response[p].val.status)
  /\ pc' = [pc EXCEPT ![p] = "send"]
  /\ UNCHANGED <<clientVars, env, live, request, headers, userApiKey, branch, fetchConfig,
                 outbound, response, data, completion, httpResponse, stages>>

\* if (!response.ok): the body text is read and thrown with the status.
HttpError(p) ==
  /\ pc[p] = "settled"
  /\ ~response[p].thrown
  /\ ~IsOk(response[p].val.status)
  /\ Complete(p, CatchBlock(ApiError(response[p].val)), "send")
  /\ UNCHANGED <<clientVars, env, live, request, headers, userApiKey, branch, fetchConfig,
                 outbound, response, data, httpResponse>>

\* Faulty variant: the reply is parsed whatever its status.
ParseReply_IgnoresStatus(p) ==
  /\ pc[p] = "settled"
  /\ ~response[p].thrown
  /\ LET r == response[p].val.body.json
     IN  IF r.thrown
         THEN /\ Complete(p, CatchBlock(r.err), "decode")
              /\ UNCHANGED data
         ELSE /\ data' = [data EXCEPT ![p] = r.val]
              /\ pc' = [pc EXCEPT ![p] = "decode"]
              /\ stages' = [stages EXCEPT ![p] = Append(@, "decode")]
              /\ UNCHANGED completion
  /\ UNCHANGED <<clientVars, env, live, request, headers, userApiKey, branch, fetchConfig,
                 outbound, response, httpResponse>>

\* const data = await response.json()
ParseReply(p) ==
  /\ pc[p] = "settled"
  /\ ~response[p].thrown
  /\ IsOk(response[p].val.status)
  /\ LET r == response[p].val.body.json
     IN  IF r.thrown
         THEN /\ Complete(p, CatchBlock(r.err), "decode")
              /\ UNCHANGED data
         ELSE /\ data' = [data EXCEPT ![p] = r.val]
              /\ pc' = [pc EXCEPT ![p] = "decode"]
              /\ stages' = [stages EXCEPT ![p] = Append(@, "decode")]
              /\ UNCHANGED completion
  /\ UNCHANGED <<clientVars, env, live, request, headers, userApiKey, branch, fetchConfig,
                 outbound, response, httpResponse>>

\* return { success: true, result: { text, provider, timestamp } }
SuccessResult(resultText, provider, now) ==
  [success |-> TRUE,
   result |-> [text |-> resultText, provider |-> provider, timestamp |-> now]]

\* The second switch reads the text along the provider's path; a throw on
\* the way goes to the catch block, anything else is returned as success.
Decode(p) ==
  /\ pc[p] = "decode"
  /\ LET r == ExtractResultText(request[p].provider, data[p])
     IN  IF r.thrown
         THEN Complete(p, CatchBlock(r.err), "decode")
         ELSE \E now \in DateNow :
                Complete(p, Return(SuccessResult(r.val, request[p].provider, now)),
                         "decode")
  /\ UNCHANGED <<clientVars, env, live, request, headers, userApiKey, branch, fetchConfig,
                 outbound, response, data, httpResponse>>

\* The steps of analyzeBloodTest in slot p, from its call to its return.
AnalyzeStep(p) ==
  \/ Validate(p)
  \/ Select(p)
  \/ BuildRequest(p)
  \/ Send(p)
  \/ FetchSettles(p)
  \/ FetchRejected(p)
  \/ HttpError(p)
  \/ ParseReply(p)
  \/ Decode(p)

Next ==
  \E p \in Slots :
    \/ PostRequest(p)
    \/ PostMalformed(p)
    \/ Validate(p)
    \/ Select(p)
    \/ BuildRequest(p)
    \/ Send(p)
    \/ FetchSettles(p)
    \/ FetchRejected(p)
    \/ HttpError(p)
    \/ ParseReply(p)
    \/ Decode(p)
    \/ Respond(p)
    \/ Close(p)

Spec == Init /\ [][Next]_vars

\* Two exchanges at a time: both slots take requests.
InitOverlapping ==
  /\ env \in {JUndef, JStr("server-gemini-key")}
  /\ live = Slots
  /\ NoExchange
  /\ InitClient

NextOverlapping ==
  \E p \in Slots :
    \/ PostRequestOverlapping(p)
    \/ PostMalformed(p)
    \/ Validate(p)
    \/ Select(p)
    \/ BuildRequest(p)
    \/ Send(p)
    \/ FetchSettlesOverlapping(p)
    \/ FetchRejected(p)
    \/ HttpError(p)
    \/ ParseReply(p)
    \/ Decode(p)
    \/ Respond(p)
    \/ Close(p)

SpecOverlapping == InitOverlapping /\ [][NextOverlapping]_vars


(***************************************************************************)
(* settings.ts: stored settings and the daily usage counter                *)
(***************************************************************************)
LLMProviders == {"gemini", "openai", "claude"}

MAX_IMAGES_PER_DAY == 2

HOURS_24 == 24 * 60 * 60 * 1000

\* { apiKeys: {}, preferredProvider: 'gemini' }: a provider without an
\* entry reads as undefined.
defaultSettings ==
  [apiKeys |-> [p \in LLMProviders |-> JUndef], preferredProvider |-> "gemini"]

\* s.trim() on a string of characters
IsSpace(c) == c \in {" ", "\t", "\n"}

RECURSIVE TrimStart(_)
TrimStart(s) ==
  IF s # <<>> /\ IsSpace(Head(s)) THEN TrimStart(Tail(s)) ELSE s

RECURSIVE TrimEnd(_)
TrimEnd(s) ==
  IF s # <<>> /\ IsSpace(s[Len(s)]) THEN TrimEnd(SubSeq(s, 1, Len(s) - 1))
  ELSE s

Trim(s) == TrimEnd(TrimStart(s))

\* What is stored under SETTINGS_KEY, or the defaults when nothing is.
loadSettings(stored) == IF stored = NoValue THEN defaultSettings ELSE stored

\* The settings saved by saveApiKey(provider, apiKey).
saveApiKey(stored, provider, apiKey) ==
  [loadSettings(stored) EXCEPT !.apiKeys[provider] = apiKey]

getApiKey(stored, provider) == loadSettings(stored).apiKeys[provider]

\* The settings saved by setPreferredProvider(provider).
setPreferredProvider(stored, provider) ==
  [loadSettings(stored) EXCEPT !.preferredProvider = provider]

getPreferredProvider(stored) == loadSettings(stored).preferredProvider

\* Object.values(settings.apiKeys).some(key => key && key.trim() !== '')
hasAnyApiKey(stored) ==
  \E p \in LLMProviders :
    LET key == loadSettings(stored).apiKeys[p]
    IN  key # JUndef /\ key.v # <<>> /\ Trim(key.v) # <<>>

\* apiKey !== undefined && apiKey.trim() !== ''
hasProviderApiKey(stored, provider) ==
  LET apiKey == loadSettings(stored).apiKeys[provider]
  IN  apiKey # JUndef /\ Trim(apiKey.v) # <<>>

\* { processedImages: { count, lastResetTime } }
UsageLimits(count, lastResetTime) ==
  [processedImages |-> [count |-> count, lastResetTime |-> lastResetTime]]

\* loadUsageLimits at time t: the limits returned, what is stored under
\* USAGE_LIMITS_KEY afterwards, and whether the object returned is the
\* module's defaultUsageLimits itself.
loadUsageLimits(saved, shared, t) ==
  IF saved # NoValue
  THEN IF t - saved.processedImages.lastResetTime > HOURS_24
       THEN [limits |-> UsageLimits(0, t), saved |-> UsageLimits(0, t),
             isDefault |-> FALSE]
       ELSE [limits |-> saved, saved |-> saved, isDefault |-> FALSE]
  ELSE [limits |-> shared, saved |-> saved, isDefault |-> TRUE]

\* Faulty variant: the counter is advanced before the key is looked at.
trackImageProcessed_CountsFirst(provider, settings, saved, shared, t) ==
  LET l == loadUsageLimits(saved, shared, t)
      counted == [l.limits EXCEPT !.processedImages.count = @ + 1]
  IN  IF hasProviderApiKey(settings, provider)
      THEN [result |-> [success |-> TRUE, remaining |-> MAX_IMAGES_PER_DAY],
            saved |-> counted,
            shared |-> IF l.isDefault THEN counted ELSE shared]
      ELSE IF l.limits.processedImages.count >= MAX_IMAGES_PER_DAY
      THEN [result |-> [success |-> FALSE, remaining |-> 0],
            saved |-> l.saved, shared |-> shared]
      ELSE [result |-> [success |-> TRUE,
                        remaining |-> MAX_IMAGES_PER_DAY
                                        - counted.processedImages.count],
            saved |-> counted,
            shared |-> IF l.isDefault THEN counted ELSE shared]

\* trackImageProcessed(provider) at time t: its return value, what is
\* stored afterwards, and the module's defaultUsageLimits afterwards (the
\* increment is made on the object loadUsageLimits returned).
trackImageProcessed(provider, settings, saved, shared, t) ==
  IF hasProviderApiKey(settings, provider)
  THEN [result |-> [success |-> TRUE, remaining |-> MAX_IMAGES_PER_DAY],
        saved |-> saved, shared |-> shared]
  ELSE LET l == loadUsageLimits(saved, shared, t)
           counted == [l.limits EXCEPT !.processedImages.count = @ + 1]
       IN  IF l.limits.processedImages.count >= MAX_IMAGES_PER_DAY
           THEN [result |-> [success |-> FALSE, remaining |-> 0],
                 saved |-> l.saved, shared |-> shared]
           ELSE [result |-> [success |-> TRUE,
                             remaining |-> MAX_IMAGES_PER_DAY
                                             - counted.processedImages.count],
                 saved |-> counted,
                 shared |-> IF l.isDefault THEN counted ELSE shared]

\* Math.max(0, x)
AtLeastZero(x) == IF x < 0 THEN 0 ELSE x

getRemainingImageCount(provider, settings, saved, shared, t) ==
  IF hasProviderApiKey(settings, provider)
  THEN [result |-> MAX_IMAGES_PER_DAY, saved |-> saved]
  ELSE LET l == loadUsageLimits(saved, shared, t)
       IN  [result |-> AtLeastZero(MAX_IMAGES_PER_DAY
                                     - l.limits.processedImages.count),
            saved |-> l.saved]

getResetTimeRemaining(saved, shared, t) ==
  LET l == loadUsageLimits(saved, shared, t)
  IN  [result |-> AtLeastZero(HOURS_24
                                - (t - l.limits.processedImages.lastResetTime)),
       saved |-> l.saved]


(***************************************************************************)
(* The settings functions called in any order while the clock advances     *)
(***************************************************************************)
MaxHalfDays == 3

MaxMillis == 1

HalfDay == HOURS_24 \div 2

\* The keys a user may type: nothing, blanks, a key.
KeyTexts == {JStr(<<>>), JStr(<<" ", " ">>), JStr(<<"s", "k", "-", "1">>)}

\* The entries of the log that are less than 24 hours old at time t.
Recent(log, t) == SelectSeq(log, LAMBDA x : t - x < HOURS_24)

\* The last three entries of the log.
LastThree(log) ==
  IF Len(log) > 3 THEN SubSeq(log, Len(log) - 2, Len(log)) ELSE log

\* Time passes.
Advance(d) ==
  /\ clock' = clock + d
  /\ successLog' = Recent(successLog, clock + d)
  /\ lastCall' = NoValue
  /\ UNCHANGED <<serverVars, pageVars, settingsStore, usageStore, defaultUsageLimits>>

TickMilli ==
  /\ clock % HalfDay < MaxMillis
  /\ Advance(1)

TickHalfDay ==
  /\ clock \div HalfDay < MaxHalfDays
  /\ Advance(HalfDay)

\* A day and a half passes.
TickDayAndHalf ==
  /\ clock \div HalfDay + 3 <= MaxHalfDays
  /\ Advance(3 * HalfDay)

CallSaveApiKey(provider, apiKey) ==
  /\ settingsStore' = saveApiKey(settingsStore, provider, apiKey)
  /\ lastCall' = NoValue
  /\ UNCHANGED <<serverVars, pageVars, clock, usageStore, defaultUsageLimits, successLog>>

\* What the log of a call keeps: the function, its argument, its return
\* value, and the counter as it was before the call.
Called(op, provider, result) ==
  [op |-> op, provider |-> provider, result |-> result,
   savedBefore |-> usageStore, sharedBefore |-> defaultUsageLimits]

CallTrackImageProcessed(provider) ==
  LET r == trackImageProcessed(provider, settingsStore, usageStore,
                               defaultUsageLimits, clock)
  IN  /\ usageStore' = r.saved
      /\ defaultUsageLimits' = r.shared
      /\ lastCall' = Called("trackImageProcessed", provider, r.result)
      /\ successLog' =
           IF r.result.success /\ ~hasProviderApiKey(settingsStore, provider)
           THEN LastThree(Append(successLog, clock))
           ELSE successLog
      /\ UNCHANGED <<serverVars, pageVars, clock, settingsStore>>

CallGetRemainingImageCount(provider) ==
  LET r == getRemainingImageCount(provider, settingsStore, usageStore,
                                  defaultUsageLimits, clock)
  IN  /\ usageStore' = r.saved
      /\ lastCall' = Called("getRemainingImageCount", provider, r.result)
      /\ UNCHANGED <<serverVars, pageVars, clock, settingsStore, defaultUsageLimits,
                     successLog>>

CallGetResetTimeRemaining ==
  LET r == getResetTimeRemaining(usageStore, defaultUsageLimits, clock)
  IN  /\ usageStore' = r.saved
      /\ lastCall' = Called("getResetTimeRemaining", "", r.result)
      /\ UNCHANGED <<serverVars, pageVars, clock, settingsStore, defaultUsageLimits,
                     successLog>>

CallLoadUsageLimits ==
  LET r == loadUsageLimits(usageStore, defaultUsageLimits, clock)
  IN  /\ usageStore' = r.saved
      /\ lastCall' = Called("loadUsageLimits", "", r.limits)
      /\ UNCHANGED <<serverVars, pageVars, clock, settingsStore, defaultUsageLimits,
                     successLog>>

\* The page is open in the browser; no request reaches the server.
InitUsage ==
  /\ env = JUndef
  /\ live = {}
  /\ NoExchange
  /\ InitClient

NextUsage ==
  \/ TickMilli
  \/ TickHalfDay
  \/ \E provider \in LLMProviders, apiKey \in KeyTexts :
       CallSaveApiKey(provider, apiKey)
  \/ \E provider \in LLMProviders : CallTrackImageProcessed(provider)
  \/ \E provider \in LLMProviders : CallGetRemainingImageCount(provider)
  \/ CallGetResetTimeRemaining
  \/ CallLoadUsageLimits

UsageSpec == InitUsage /\ [][NextUsage]_vars


(***************************************************************************)
(* page.tsx: the Home component                                            *)
(***************************************************************************)
MaxAnalyzeCalls == 3

\* The images the uploader hands over: none (cleared) or a data URI.
PageImages == {"", "data:image/png;base64,iVBORw0KGgo="}

\* What the settings dialog may save: the three key fields and the
\* preferred provider.
NoKey == JStr(<<>>)

SettingsForms ==
  {[gemini |-> NoKey, openai |-> JStr(<<"s", "k", "-", "1">>), claude |-> NoKey,
    preferredProvider |-> "openai"],
   [gemini |-> JStr(<<" ", " ">>), openai |-> NoKey, claude |-> NoKey,
    preferredProvider |-> "gemini"]}

\* `${hours}h ${minutes}m`
formatTimeRemaining(milliseconds) ==
  ToString(milliseconds \div (60 * 60 * 1000)) \o "h "
    \o ToString((milliseconds % (60 * 60 * 1000)) \div (60 * 1000)) \o "m"

\* updateRemainingImages as created by a render whose provider is
\* `provider`: the page afterwards and what is stored afterwards.
updateRemainingImages(pg, provider, settings, saved, shared, t) ==
  LET remaining == getRemainingImageCount(provider, settings, saved, shared, t)
      reset == getResetTimeRemaining(remaining.saved, shared, t)
  IN  [page |-> [pg EXCEPT !.remainingImages = remaining.result,
                           !.resetTime = reset.result],
       saved |-> reset.saved]

\* The fetch call of handleAnalyze.
AnalyzeFetch(pg, settings) ==
  LET storedKey == getApiKey(settings, pg.provider)
  IN  [url |-> "/api/analyze",
       method |-> "POST",
       headers |->
         ("Content-Type" :> JStr("application/json"))
           @@ (IF Truthy(storedKey)
               THEN ("x-" \o pg.provider \o "-key") :> storedKey
               ELSE <<>>),
       body |-> [imageBase64 |-> pg.imageBase64,
                 contextText |-> Or(JStr(Trim(pg.contextText.v)), JUndef),
                 provider |-> pg.provider]]

LimitMessage(pg) ==
  JStr("You've reached the limit of 2 images in 24 hours. Try again in "
         \o formatTimeRemaining(pg.resetTime) \o ".")

\* Faulty variant: the image is tracked before it is checked, and the
\* views are switched before the limit is.
handleAnalyze_ChecksLate(pg, settings, saved, shared, t) ==
  LET trackResult == trackImageProcessed(pg.provider, settings, saved, shared, t)
      busy == [pg EXCEPT !.isLoading = TRUE, !.showResults = TRUE]
  IN  IF pg.imageBase64 = ""
      THEN [page |-> [pg EXCEPT !.error = JStr("Please upload an image first")],
            tracked |-> TRUE, trackResult |-> trackResult.result,
            saved |-> trackResult.saved, shared |-> trackResult.shared,
            fetch |-> NoValue]
      ELSE IF ~trackResult.result.success
      THEN [page |-> [busy EXCEPT !.error = LimitMessage(pg)],
            tracked |-> TRUE, trackResult |-> trackResult.result,
            saved |-> trackResult.saved, shared |-> trackResult.shared,
            fetch |-> NoValue]
      ELSE [page |-> [busy EXCEPT !.error = JNull],
            tracked |-> TRUE, trackResult |-> trackResult.result,
            saved |-> trackResult.saved, shared |-> trackResult.shared,
            fetch |-> AnalyzeFetch(pg, settings)]

\* handleAnalyze up to its first await: the page afterwards, whether
\* trackImageProcessed was called and what it returned, what is stored
\* afterwards, and the fetch call made, if any.
handleAnalyze(pg, settings, saved, shared, t) ==
  LET trackResult == trackImageProcessed(pg.provider, settings, saved, shared, t)
  IN  IF pg.imageBase64 = ""
      THEN [page |-> [pg EXCEPT !.error = JStr("Please upload an image first")],
            tracked |-> FALSE, trackResult |-> NoValue,
            saved |-> saved, shared |-> shared, fetch |-> NoValue]
      ELSE IF ~trackResult.result.success
      THEN [page |-> [pg EXCEPT !.error = LimitMessage(pg)],
            tracked |-> TRUE, trackResult |-> trackResult.result,
            saved |-> trackResult.saved, shared |-> trackResult.shared,
            fetch |-> NoValue]
      ELSE [page |-> [pg EXCEPT !.isLoading = TRUE, !.error = JNull,
                                !.showResults = TRUE],
            tracked |-> TRUE, trackResult |-> trackResult.result,
            saved |-> trackResult.saved, shared |-> trackResult.shared,
            fetch |-> AnalyzeFetch(pg, settings)]

\* useEffect(..., []): runs once after the first render, whose provider
\* is the initial 'gemini'.
Mount ==
  /\ ~page.mounted
  /\ LET loaded == [page EXCEPT
                      !.mounted = TRUE,
                      !.provider = loadSettings(settingsStore).preferredProvider,
                      !.hasApiKey = hasAnyApiKey(settingsStore)]
         u == updateRemainingImages(loaded, page.provider, settingsStore,
                                    usageStore, defaultUsageLimits, clock)
     IN  /\ page' = u.page
         /\ usageStore' = u.saved
  /\ UNCHANGED <<serverVars, clock, settingsStore, defaultUsageLimits, lastCall,
                 successLog, requests, inflight, analyzeCalls>>

\* FileUploader, rendered on the upload view, calls
\* onImageSelect = setImageBase64.
SelectImage(img) ==
  /\ page.mounted
  /\ ~page.showResults
  /\ page.imageBase64 # img
  /\ page' = [page EXCEPT !.imageBase64 = img]
  /\ UNCHANGED <<serverVars, usageVars, requests, inflight, analyzeCalls>>

\* The settings button.
OpenSettings ==
  /\ page.mounted
  /\ ~page.showSettings
  /\ page' = [page EXCEPT !.showSettings = TRUE]
  /\ UNCHANGED <<serverVars, usageVars, requests, inflight, analyzeCalls>>

\* SettingsModal.handleSave: three saveApiKey calls and setPreferredProvider.
SettingsSave(form) ==
  /\ page.showSettings
  /\ settingsStore' =
       setPreferredProvider(
         saveApiKey(
           saveApiKey(
             saveApiKey(settingsStore, "gemini", form.gemini),
             "openai", form.openai),
           "claude", form.claude),
         form.preferredProvider)
  /\ lastCall' = NoValue
  /\ UNCHANGED <<serverVars, pageVars, clock, usageStore, defaultUsageLimits,
                 successLog>>

handleSettingsClose ==
  /\ page.showSettings
  /\ page' = [page EXCEPT !.showSettings = FALSE,
                          !.provider = getPreferredProvider(settingsStore),
                          !.hasApiKey = hasAnyApiKey(settingsStore)]
  /\ UNCHANGED <<serverVars, usageVars, requests, inflight, analyzeCalls>>

\* !hasProviderApiKey(provider)
isLimitApplied(pg, settings) == ~hasProviderApiKey(settings, pg.provider)

\* The Analyze button's disabled attribute.
AnalyzeDisabled(pg, settings) ==
  \/ pg.isLoading
  \/ pg.imageBase64 = ""
  \/ (isLimitApplied(pg, settings) /\ pg.remainingImages = 0)

\* The Analyze button, shown on the upload view, is clicked:
\* handleAnalyze runs up to its await.
HandleAnalyze ==
  /\ page.mounted
  /\ ~page.showResults
  /\ ~AnalyzeDisabled(page, settingsStore)
  /\ analyzeCalls < MaxAnalyzeCalls
  /\ analyzeCalls' = analyzeCalls + 1
  /\ LET h == handleAnalyze(page, settingsStore, usageStore,
                            defaultUsageLimits, clock)
     IN  /\ page' = h.page
         /\ usageStore' = h.saved
         /\ defaultUsageLimits' = h.shared
         /\ IF h.fetch # NoValue
            THEN /\ requests' =
                      Append(requests, [call |-> h.fetch, provider |-> page.provider])
                 /\ inflight' = inflight \cup {Len(requests) + 1}
            ELSE UNCHANGED <<requests, inflight>>
  /\ UNCHANGED <<serverVars, clock, settingsStore, lastCall, successLog>>

\* How a call to /api/analyze may come back: the parsed body with its
\* status, or a throw from fetch or from response.json().
AnalyzeReplies(i) ==
  {Normal([ok |-> TRUE,
           data |-> [success |-> TRUE,
                     result |-> [text |-> "Analysis " \o ToString(i),
                                 provider |-> requests[i].call.body.provider,
                                 timestamp |-> 1000]]]),
   Normal([ok |-> FALSE, data |-> [error |-> JStr("No Gemini API key provided")]]),
   Normal([ok |-> FALSE, data |-> [error |-> JUndef]]),
   Thrown(ErrorObj("TypeError", "Failed to fetch")),
   Thrown(ErrorObj("SyntaxError", "Unexpected end of JSON input"))}

\* Faulty variant: setIsLoading(false) at the end of the try block
\* instead of in finally.
Resume_NoFinally(pg, i, reply, settings, saved, shared, t) ==
  IF reply.thrown
  THEN [page |-> [pg EXCEPT
                    !.error = IF reply.err.isError THEN JStr(reply.err.message)
                              ELSE JStr("An unknown error occurred")],
        saved |-> saved]
  ELSE IF ~reply.val.ok
  THEN [page |-> [pg EXCEPT
                    !.error = JStr(ToJsString(
                                Or(reply.val.data.error,
                                   JStr("Failed to analyze blood test"))))],
        saved |-> saved]
  ELSE LET u == updateRemainingImages(
                  [pg EXCEPT !.result = JObj(reply.val.data.result)],
                  requests[i].provider, settings, saved, shared, t)
       IN  [page |-> [u.page EXCEPT !.isLoading = FALSE], saved |-> u.saved]

\* The page after request i came back as `reply`: the rest of
\* handleAnalyze, with updateRemainingImages as the render of the call
\* created it.
Resume(pg, i, reply, settings, saved, shared, t) ==
  IF reply.thrown
  THEN [page |-> [pg EXCEPT
                    !.error = IF reply.err.isError THEN JStr(reply.err.message)
                              ELSE JStr("An unknown error occurred"),
                    !.isLoading = FALSE],
        saved |-> saved]
  ELSE IF ~reply.val.ok
  THEN [page |-> [pg EXCEPT
                    !.error = JStr(ToJsString(
                                Or(reply.val.data.error,
                                   JStr("Failed to analyze blood test")))),
                    !.isLoading = FALSE],
        saved |-> saved]
  ELSE LET u == updateRemainingImages(
                  [pg EXCEPT !.result = JObj(reply.val.data.result)],
                  requests[i].provider, settings, saved, shared, t)
       IN  [page |-> [u.page EXCEPT !.isLoading = FALSE], saved |-> u.saved]

\* The awaited call i settles and handleAnalyze runs to its end.
AnalyzeSettles(i) ==
  /\ i \in inflight
  /\ \E reply \in AnalyzeReplies(i) :
       LET r == Resume(page, i, reply, settingsStore, usageStore,
                       defaultUsageLimits, clock)
       IN  /\ page' = r.page
           /\ usageStore' = r.saved
  /\ inflight' = inflight \ {i}
  /\ UNCHANGED <<serverVars, clock, settingsStore, defaultUsageLimits, lastCall,
                 successLog, requests, analyzeCalls>>

\* What ResultDisplay renders: the spinner while loading, nothing without
\* a result, otherwise the result with its back, download and copy buttons.
ResultDisplay(result, isLoading) ==
  IF isLoading THEN [view |-> "spinner", result |-> JNull, onBack |-> FALSE]
  ELSE IF ~Truthy(result) THEN [view |-> "nothing", result |-> JNull, onBack |-> FALSE]
  ELSE [view |-> "result", result |-> result, onBack |-> TRUE]

\* The back button of ResultDisplay, rendered on the results view.
handleBackToUpload ==
  /\ page.showResults
  /\ ResultDisplay(page.result, page.isLoading).onBack
  /\ page' = [page EXCEPT !.showResults = FALSE]
  /\ UNCHANGED <<serverVars, usageVars, requests, inflight, analyzeCalls>>

NextPage ==
  \/ TickDayAndHalf
  \/ Mount
  \/ \E img \in PageImages : SelectImage(img)
  \/ OpenSettings
  \/ \E form \in SettingsForms : SettingsSave(form)
  \/ handleSettingsClose
  \/ HandleAnalyze
  \/ \E i \in 1..MaxAnalyzeCalls : AnalyzeSettles(i)
  \/ handleBackToUpload

PageSpec == InitUsage /\ [][NextPage]_vars


(***************************************************************************)
(* Properties                                                              *)
(***************************************************************************)
\* analyzeBloodTest was called in slot p / has completed in slot p.
Invoked(p) == request[p] # NoValue

Completed(p) == completion[p] # NoValue

Returned(p) == Completed(p) /\ completion[p].kind = "return"

\* The invocation returned { success: false, error }.
Failed(p) == Returned(p) /\ ~completion[p].value.success

Succeeded(p) == Returned(p) /\ completion[p].value.success

FailedWith(p, message) == Failed(p) /\ completion[p].value.error = message

\* The request's image is absent or empty / its provider is one of the three.
NoImage(p) ==
  request[p].imageBase64 = JUndef \/ request[p].imageBase64 = JStr(<<>>)

IsKnown(provider) ==
  provider \in {JStr("gemini"), JStr("openai"), JStr("claude")}

\* The caller's key for the request's provider: the x-<provider>-key header.
OwnHeader(p) == "x-" \o request[p].provider.v \o "-key"

NoCallerKey(p) == headers[p][OwnHeader(p)] \in {JNull, JStr("")}

NoEnvDefault == env \in {JUndef, JStr("")}

\* No credential is resolvable for the request's (recognised) provider.
NoCredential(p) ==
  /\ NoCallerKey(p)
  /\ request[p].provider = JStr("gemini") => NoEnvDefault

MissingCredentialMessage(provider) ==
  CASE provider = JStr("gemini") -> "No Gemini API key provided"
    [] provider = JStr("openai") -> "No OpenAI API key provided"
    [] provider = JStr("claude") -> "No Claude API key provided"

\* C1: whatever the provider and the credential, a request whose image is
\* absent or empty never issues an outbound call, and its invocation ends
\* in the validation failure.
C1_NoImageRejectedBeforeAnyCall ==
  \A p \in Slots :
    (Invoked(p) /\ NoImage(p)) =>
      /\ outbound[p] = <<>>
      /\ pc[p] \notin {"send", "await", "settled", "decode"}
      /\ Completed(p) => FailedWith(p, "No image provided")

\* C1 witness: an imageless request for a recognised provider, with the
\* caller's key present, has been refused.
C1_Witness ==
  \E p \in Slots :
    /\ Completed(p)
    /\ request[p].imageBase64 = JStr(<<>>)
    /\ request[p].provider = JStr("openai")
    /\ userApiKey[p] = JStr("user-x-openai-key")
    /\ Failed(p)

\* C2 as stated: whenever no credential is resolvable for the chosen
\* provider, the invocation ends in the missing-credential failure and no
\* call goes out.
C2_Original ==
  \A p \in Slots :
    (Invoked(p) /\ IsKnown(request[p].provider) /\ NoCredential(p)) =>
      /\ outbound[p] = <<>>
      /\ Completed(p) =>
           FailedWith(p, MissingCredentialMessage(request[p].provider))

\* C2 amended: for a request that carries an image, when no credential is
\* resolvable for the chosen provider, the invocation ends in that
\* provider's missing-credential failure and no call goes out.
C2_MissingCredentialRejected ==
  \A p \in Slots :
    (Invoked(p) /\ ~NoImage(p) /\ IsKnown(request[p].provider) /\ NoCredential(p)) =>
      /\ outbound[p] = <<>>
      /\ pc[p] \notin {"send", "await", "settled", "decode"}
      /\ Completed(p) =>
           FailedWith(p, MissingCredentialMessage(request[p].provider))

\* C2 witness: an openai request with an image and no x-openai-key has
\* been refused although the other providers' keys and the environment
\* default were all there.
C2_Witness ==
  \E p \in Slots :
    /\ Completed(p)
    /\ ~NoImage(p)
    /\ request[p].provider = JStr("openai")
    /\ headers[p]["x-openai-key"] = JNull
    /\ headers[p]["x-gemini-key"] = JStr("user-x-gemini-key")
    /\ headers[p]["x-claude-key"] = JStr("user-x-claude-key")
    /\ env = JStr("server-gemini-key")
    /\ FailedWith(p, "No OpenAI API key provided")

\* C3: a request that carries an image and names no recognised provider
\* never issues an outbound call, whatever the headers, and its invocation
\* ends in the unsupported-provider failure.
C3_UnsupportedProviderRejected ==
  \A p \in Slots :
    (Invoked(p) /\ ~NoImage(p) /\ ~IsKnown(request[p].provider)) =>
      /\ outbound[p] = <<>>
      /\ pc[p] \notin {"build", "send", "await", "settled", "decode"}
      /\ Completed(p) =>
           FailedWith(p, "Unsupported provider: "
                           \o ToJsString(request[p].provider))

\* C3 witness: an unrecognised provider has been refused with every key
\* header and the environment default present.
C3_Witness ==
  \E p \in Slots :
    /\ Completed(p)
    /\ ~NoImage(p)
    /\ request[p].provider = JStr("mistral")
    /\ \A n \in HeaderNames : headers[p][n] = JStr("user-" \o n)
    /\ env = JStr("server-gemini-key")
    /\ FailedWith(p, "Unsupported provider: mistral")

\* The fetch of slot p was answered with a non-success status.
NonSuccessReply(p) ==
  /\ response[p] # NoValue
  /\ ~response[p].thrown
  /\ ~(response[p].val.status \in 200..299)

\* C4: after a reply with a non-success status the invocation ends in a
\* failure whose message is "API Error (<status>): <body text>", the reply
\* is never parsed or decoded, and exactly one call has gone out.
C4_HttpErrorCarriesStatusAndBody ==
  \A p \in Slots :
    NonSuccessReply(p) =>
      /\ Len(outbound[p]) = 1
      /\ data[p] = NoValue
      /\ \A i \in 1..Len(stages[p]) : stages[p][i] # "decode"
      /\ pc[p] \in {"settled", "returned", "responded"}
      /\ Completed(p) =>
           FailedWith(p, "API Error ("
                           \o ToString(response[p].val.status) \o "): "
                           \o response[p].val.body.text)

\* C4 witness: a 401 with the body "Unauthorized" has ended the invocation.
C4_Witness ==
  \E p \in Slots :
    /\ Completed(p)
    /\ NonSuccessReply(p)
    /\ response[p].val.status = 401
    /\ response[p].val.body.text = "Unauthorized"
    /\ FailedWith(p, "API Error (401): Unauthorized")


\* The path to the answer's text in each provider's documented reply.
DocumentedPath(provider) ==
  CASE provider = JStr("gemini") ->
         <<"candidates", "0", "content", "parts", "0", "text">>
    [] provider = JStr("openai") -> <<"choices", "0", "message", "content">>
    [] provider = JStr("claude") -> <<"content", "0", "text">>

\* Every field on the path is there: each key is a key of the object, or
\* an index of the array, reached so far.
RECURSIVE HasPath(_, _)
HasPath(doc, path) ==
  \/ path = <<>>
  \/ /\ IF Head(path) = "0"
        THEN doc.t = "array" /\ Len(doc.v) >= 1
        ELSE doc.t = "object" /\ Head(path) \in DOMAIN doc.v
     /\ HasPath(GetProp(doc, Head(path)).val, Tail(path))

\* The fetch of slot p was answered with a success status and a JSON body.
SuccessReply(p) ==
  /\ response[p] # NoValue
  /\ ~response[p].thrown
  /\ response[p].val.status \in 200..299
  /\ ~response[p].val.body.json.thrown

\* The messages of every HTTP-level error the environment can cause.
HttpErrorMessages ==
  {"API Error (" \o ToString(st) \o "): " \o b.text :
     st \in Statuses, b \in ReplyBodies}

\* C5: a success-status reply that lacks a field of the provider's path, at
\* any depth, ends the invocation in a failure that is no HTTP-level error.
C5_MissingFieldIsDecodeFailure ==
  \A p \in Slots :
    ( /\ Completed(p)
      /\ IsKnown(request[p].provider)
      /\ SuccessReply(p)
      /\ ~HasPath(response[p].val.body.json.val,
                  DocumentedPath(request[p].provider)) ) =>
      /\ Failed(p)
      /\ completion[p].value.error \notin HttpErrorMessages

\* The result is one of the two tagged shapes.
IsTaggedResult(v) ==
  \/ v.success /\ DOMAIN v = {"success", "result"}
  \/ ~v.success /\ DOMAIN v = {"success", "error"} /\ v.error \in STRING

OutcomeIsTagged ==
  \A p \in Slots :
    Completed(p) => Returned(p) /\ IsTaggedResult(completion[p].value)

\* Once set, an invocation's outcome stays until the exchange is closed.
OutcomeIsFinal ==
  \A p \in Slots :
    Completed(p) =>
      completion'[p] = completion[p] \/ (pc'[p] = "idle" /\ ~Completed(p)')

\* How far an invocation has come.
Rank(at) ==
  CASE at = "idle" -> 0
    [] at = "validate" -> 1
    [] at = "select" -> 2
    [] at = "build" -> 3
    [] at = "send" -> 4
    [] at = "await" -> 5
    [] at = "settled" -> 6
    [] at = "decode" -> 7
    [] at = "returned" -> 8
    [] at = "responded" -> 9

\* An invocation that has not completed can take a step (while it awaits
\* the fetch, that step is the fetch settling).
NeverStuck ==
  \A p \in Slots : (Invoked(p) /\ ~Completed(p)) => ENABLED AnalyzeStep(p)

\* Every step moves the invocation forward: no stage is entered twice.
StepsAdvance ==
  \A p \in Slots :
    pc'[p] # pc[p] => (Rank(pc'[p]) > Rank(pc[p]) \/ pc'[p] = "idle")

\* C6: every invocation ends (it can always take a step until it has
\* completed, and every step moves it forward), returning exactly one
\* result that is either { success: true, result } or { success: false,
\* error: <string> }; no thrown value reaches the caller, whichever stage
\* failed and also when the transport fails.
C6_EveryInvocationEndsTagged ==
  /\ []OutcomeIsTagged
  /\ [][OutcomeIsFinal]_vars
  /\ []NeverStuck
  /\ [][StepsAdvance]_vars

\* C6 witness: a transport fault whose thrown value is no Error has been
\* turned into a failure result.
C6_Witness ==
  \E p \in Slots :
    /\ response[p] # NoValue
    /\ response[p].thrown
    /\ ~response[p].err.isError
    /\ FailedWith(p, "Unknown error occurred")
    /\ pc[p] = "responded"

\* C7 as stated: every invocation issues exactly one outbound call.
C7_Original ==
  \A p \in Slots : Completed(p) => Len(outbound[p]) = 1

\* The request passes validation, branch selection and the key check.
Sendable(p) ==
  /\ ~NoImage(p)
  /\ IsKnown(request[p].provider)
  /\ ~NoCredential(p)

\* C7 amended: an invocation issues at most one outbound call: exactly one
\* when the request carries an image, names a recognised provider and has a
\* resolvable credential, and none otherwise; while the call is awaited the
\* invocation has no outcome, and it gets one only after the call settled.
C7_AtMostOneCall ==
  \A p \in Slots :
    /\ Len(outbound[p]) <= 1
    /\ Completed(p) => (Len(outbound[p]) = 1 <=> Sendable(p))
    /\ (Completed(p) /\ Len(outbound[p]) = 1) => response[p] # NoValue
    /\ pc[p] = "await" =>
         Len(outbound[p]) = 1 /\ ~Completed(p) /\ response[p] = NoValue

\* C7 witness: an invocation has ended after its one call failed with 500.
C7_Witness ==
  \E p \in Slots :
    /\ Completed(p)
    /\ Sendable(p)
    /\ Len(outbound[p]) = 1
    /\ NonSuccessReply(p)
    /\ response[p].val.status = 500

\* The base URL that belongs to each provider.
EndpointOf(provider) ==
  CASE provider = JStr("gemini") ->
         "https://generativelanguage.googleapis.com/v1beta/models/gemini-1.5-flash:generateContent"
    [] provider = JStr("openai") -> "https://api.openai.com/v1/chat/completions"
    [] provider = JStr("claude") -> "https://api.anthropic.com/v1/messages"

\* The call of slot p carries credential `key` where the request's provider
\* wants it, and nowhere else: gemini in the URL's query, openai as a bearer
\* Authorization header, claude in x-api-key.
CarriesCredential(p, call, key) ==
  LET prov == request[p].provider
      h == call.options.headers
  IN  CASE prov = JStr("gemini") ->
             /\ call.url = EndpointOf(prov) \o "?key=" \o key
             /\ DOMAIN h = {"Content-Type"}
        [] prov = JStr("openai") ->
             /\ call.url = EndpointOf(prov)
             /\ DOMAIN h = {"Content-Type", "Authorization"}
             /\ h["Authorization"] = "Bearer " \o key
        [] prov = JStr("claude") ->
             /\ call.url = EndpointOf(prov)
             /\ DOMAIN h = {"Content-Type", "x-api-key", "anthropic-version"}
             /\ h["x-api-key"] = key

\* The credentials that belong to the request's provider: the value of its
\* own header and, for gemini, the environment default.
OwnCredentials(p) ==
  (IF NoCallerKey(p) THEN {} ELSE {headers[p][OwnHeader(p)].v})
    \cup (IF request[p].provider = JStr("gemini") /\ ~NoEnvDefault
          THEN {env.v} ELSE {})

\* C8: in every invocation that sends a request, the provider is one of
\* the three, the call goes to that provider's endpoint with one of that
\* provider's own credentials placed the way that provider wants it, and a
\* success result holds the text at that provider's path and that
\* provider's identifier.
C8_OneProviderEndToEnd ==
  \A p \in Slots :
    outbound[p] # <<>> =>
      /\ IsKnown(request[p].provider)
      /\ \E key \in OwnCredentials(p) : CarriesCredential(p, outbound[p][1], key)
      /\ Succeeded(p) =>
           /\ completion[p].value.result.provider = request[p].provider
           /\ completion[p].value.result.text =
                GetPath(data[p], DocumentedPath(request[p].provider)).val

\* C8 witness: an openai request has succeeded while all three key headers
\* and the environment default were present.
C8_Witness ==
  \E p \in Slots :
    /\ Succeeded(p)
    /\ request[p].provider = JStr("openai")
    /\ \A n \in HeaderNames : headers[p][n] = JStr("user-" \o n)
    /\ env = JStr("server-gemini-key")
    /\ completion[p].value.result.text = JStr("Hemoglobin is slightly low.")

\* C9: the credential sent for gemini is the caller's key when there is
\* one and the environment default otherwise; the credential sent for
\* openai and claude is the caller's key, and without one nothing is sent
\* even when the environment default is set.
C9_CredentialResolution ==
  \A p \in Slots :
    /\ outbound[p] # <<>> =>
         CarriesCredential(p, outbound[p][1],
           IF request[p].provider = JStr("gemini") /\ NoCallerKey(p)
           THEN env.v
           ELSE headers[p][OwnHeader(p)].v)
    /\ ( /\ Invoked(p)
         /\ request[p].provider \in {JStr("openai"), JStr("claude")}
         /\ NoCallerKey(p) ) => outbound[p] = <<>>

\* C9 witness: a gemini call has gone out with the environment default,
\* the caller having sent no x-gemini-key.
C9_Witness ==
  \E p \in Slots :
    /\ outbound[p] # <<>>
    /\ request[p].provider = JStr("gemini")
    /\ headers[p]["x-gemini-key"] = JNull
    /\ outbound[p][1].url = EndpointOf(JStr("gemini")) \o "?key=server-gemini-key"

\* C9 second witness: a gemini call has gone out with the caller's key
\* although the environment default was set.
C9_WitnessCallerKey ==
  \E p \in Slots :
    /\ outbound[p] # <<>>
    /\ request[p].provider = JStr("gemini")
    /\ env = JStr("server-gemini-key")
    /\ outbound[p][1].url = EndpointOf(JStr("gemini")) \o "?key=user-x-gemini-key"

\* Where the prompt sits in each provider's request body.
PromptPath(provider) ==
  IF provider = JStr("gemini")
  THEN <<"contents", "0", "parts", "0", "text">>
  ELSE <<"messages", "0", "content", "0", "text">>

PromptSent(p) ==
  GetPath(fetchConfig[p].options.body, PromptPath(request[p].provider)).val

ContextSupplied(p) ==
  request[p].contextText # JUndef /\ request[p].contextText # JStr("")

\* C10 as stated: a supplied context appends exactly the string
\* "Additional context provided by user: {context}" to the fixed prompt,
\* and nothing else changes.
C10_Original ==
  \A p \in Slots :
    fetchConfig[p] # NoValue =>
      PromptSent(p) =
        IF ContextSupplied(p)
        THEN JStr(ANALYSIS_PROMPT \o "Additional context provided by user: "
                    \o request[p].contextText.v)
        ELSE JStr(ANALYSIS_PROMPT)

\* C10 amended: for all three providers a supplied, non-empty context
\* appends a blank line ("\n\n") followed by exactly "Additional context
\* provided by user: {context}" to the fixed prompt, and nothing else
\* changes; with no context, or an empty one, the prompt is the fixed
\* prompt.
C10_ContextAppended ==
  \A p \in Slots :
    fetchConfig[p] # NoValue =>
      PromptSent(p) =
        IF ContextSupplied(p)
        THEN JStr(ANALYSIS_PROMPT \o "\n\n"
                    \o "Additional context provided by user: "
                    \o request[p].contextText.v)
        ELSE JStr(ANALYSIS_PROMPT)

\* C10 witness: a claude request with a context has been built.
C10_Witness ==
  \E p \in Slots :
    /\ fetchConfig[p] # NoValue
    /\ request[p].provider = JStr("claude")
    /\ request[p].contextText = JStr("Fasting sample, patient is 54.")
    /\ PromptSent(p) # JStr(ANALYSIS_PROMPT)

\* The image is a data URI: data:<mime>;base64,<payload>.
IsDataUri(img) ==
  /\ img.t = "string"
  /\ Len(img.v) = 7
  /\ img.v[1] = "data" /\ img.v[2] = ":" /\ img.v[4] = ";"
  /\ img.v[5] = "base64" /\ img.v[6] = ","

MimeOf(img) == JStr(<<img.v[3]>>)

PayloadOf(img) == JStr(<<img.v[7]>>)

\* The second part of the first content of a gemini request body.
GeminiInlineData(call) ==
  call.options.body.v["contents"].v[1].v["parts"].v[2].v["inline_data"]

\* C11: a gemini request built from an image data:<mime>;base64,<payload>
\* carries, as inline data, the payload without its prefix and the media
\* type "image/jpeg", whatever <mime> is; so "data:image/jpeg;base64,AAAA"
\* gives mime_type "image/jpeg" and data "AAAA".  What is built is what is
\* sent.
C11_GeminiInlineData ==
  \A p \in Slots :
    ( /\ fetchConfig[p] # NoValue
      /\ request[p].provider = JStr("gemini")
      /\ IsDataUri(request[p].imageBase64) ) =>
      /\ GeminiInlineData(fetchConfig[p]) =
           JObj([mime_type |-> JStr("image/jpeg"),
                 data |-> PayloadOf(request[p].imageBase64)])
      /\ request[p].imageBase64 =
             JStr(<<"data", ":", "image/jpeg", ";", "base64", ",", "AAAA">>) =>
           GeminiInlineData(fetchConfig[p]).v["data"] = JStr(<<"AAAA">>)
      /\ outbound[p] # <<>> => outbound[p][1] = fetchConfig[p]

\* C11 witness: a gemini call has gone out for a PNG image, labelled
\* image/jpeg and carrying the PNG's payload.
C11_Witness ==
  \E p \in Slots :
    /\ outbound[p] # <<>>
    /\ request[p].provider = JStr("gemini")
    /\ MimeOf(request[p].imageBase64) = JStr(<<"image/png">>)
    /\ GeminiInlineData(outbound[p][1]).v["mime_type"] = JStr("image/jpeg")
    /\ GeminiInlineData(outbound[p][1]).v["data"] = JStr(<<"iVBORw0KGgo=">>)

\* The second part of the first message of a claude / an openai body.
SecondPart(call) ==
  call.options.body.v["messages"].v[1].v["content"].v[2]

\* C12: for an image data:<mime>;base64,<payload>, a claude request's image
\* block has media_type <mime> and data <payload>, and an openai request's
\* image-url part has the whole data URI as its url.
C12_ClaudeAndOpenAIImage ==
  \A p \in Slots :
    (fetchConfig[p] # NoValue /\ IsDataUri(request[p].imageBase64)) =>
      /\ request[p].provider = JStr("claude") =>
           SecondPart(fetchConfig[p]) =
             JObj([type |-> JStr("image"),
                   source |-> JObj(
                     [type |-> JStr("base64"),
                      media_type |-> MimeOf(request[p].imageBase64),
                      data |-> PayloadOf(request[p].imageBase64)])])
      /\ request[p].provider = JStr("openai") =>
           SecondPart(fetchConfig[p]) =
             JObj([type |-> JStr("image_url"),
                   image_url |-> JObj([url |-> request[p].imageBase64])])
      /\ outbound[p] # <<>> => outbound[p][1] = fetchConfig[p]

\* C12 witness: a claude call has gone out for a PNG image with media_type
\* image/png.
C12_Witness ==
  \E p \in Slots :
    /\ outbound[p] # <<>>
    /\ request[p].provider = JStr("claude")
    /\ SecondPart(outbound[p][1]).v["source"].v["media_type"]
         = JStr(<<"image/png">>)
    /\ SecondPart(outbound[p][1]).v["source"].v["data"]
         = JStr(<<"iVBORw0KGgo=">>)

\* C12 second witness: an openai call has gone out with the whole URI.
C12_WitnessOpenAI ==
  \E p \in Slots :
    /\ outbound[p] # <<>>
    /\ request[p].provider = JStr("openai")
    /\ SecondPart(outbound[p][1]).v["image_url"].v["url"] =
         JStr(<<"data", ":", "image/png", ";", "base64", ",", "iVBORw0KGgo=">>)

\* What sits at `path` in a document that has every field of the path.
RECURSIVE Leaf(_, _)
Leaf(doc, path) ==
  IF path = <<>> THEN doc
  ELSE Leaf(IF Head(path) = "0" THEN doc.v[1] ELSE doc.v[Head(path)],
            Tail(path))

\* The reply has the provider's documented shape: a string at the path.
DocumentedShape(doc, provider) ==
  /\ HasPath(doc, DocumentedPath(provider))
  /\ Leaf(doc, DocumentedPath(provider)).t = "string"

\* C13: for each of the three providers, a success-status reply of the
\* documented shape ends the invocation in a success whose result is
\* exactly the text at that provider's path, the provider's identifier and
\* a capture timestamp.
C13_ResultIsTextAtPath ==
  \A p \in Slots :
    ( /\ Completed(p)
      /\ IsKnown(request[p].provider)
      /\ SuccessReply(p)
      /\ DocumentedShape(response[p].val.body.json.val, request[p].provider) ) =>
      /\ Succeeded(p)
      /\ DOMAIN completion[p].value.result = {"text", "provider", "timestamp"}
      /\ completion[p].value.result.text =
           Leaf(response[p].val.body.json.val,
                DocumentedPath(request[p].provider))
      /\ completion[p].value.result.provider = request[p].provider
      /\ completion[p].value.result.timestamp \in DateNow

\* C13 witness: a gemini reply of the documented shape has been decoded.
C13_Witness ==
  \E p \in Slots :
    /\ Succeeded(p)
    /\ request[p].provider = JStr("gemini")
    /\ DocumentedShape(response[p].val.body.json.val, JStr("gemini"))
    /\ completion[p].value.result.text = JStr("Hemoglobin is slightly low.")

\* POST has answered in slot p.
Answered(p) == httpResponse[p] # NoValue

\* C14: POST answers every failed analysis with a non-success status and
\* the failure's error string, and every successful one with a success
\* status and { success: true, result }; no success status is ever
\* returned for anything but a successful analysis.
C14_StatusFollowsOutcome ==
  \A p \in Slots :
    Answered(p) =>
      /\ (Completed(p) /\ Failed(p)) =>
           /\ httpResponse[p].status \notin 200..299
           /\ httpResponse[p].body = [error |-> completion[p].value.error]
      /\ (Completed(p) /\ Succeeded(p)) =>
           /\ httpResponse[p].status \in 200..299
           /\ httpResponse[p].body =
                [success |-> TRUE, result |-> completion[p].value.result]
      /\ httpResponse[p].status \in 200..299 => (Completed(p) /\ Succeeded(p))

\* C14 witness: a failed analysis has been answered with status 400.
C14_Witness ==
  \E p \in Slots :
    /\ Answered(p)
    /\ FailedWith(p, "No OpenAI API key provided")
    /\ httpResponse[p] =
         [status |-> 400, body |-> [error |-> "No OpenAI API key provided"]]

\* C14 second witness: a successful analysis has been answered with 200.
C14_WitnessSuccess ==
  \E p \in Slots :
    /\ Answered(p)
    /\ Succeeded(p)
    /\ httpResponse[p].status = 200
    /\ httpResponse[p].body.success

\* The stages in their fixed order, ending in the success terminal state.
StageOrder ==
  <<"validate", "select-branch", "build-request", "send", "decode", "done">>

IsPrefix(a, b) == Len(a) <= Len(b) /\ a = SubSeq(b, 1, Len(a))

\* A run of 1 to 5 stages in order, cut short by the failure terminal state.
CutShort(trace) ==
  /\ Len(trace) >= 2
  /\ trace[Len(trace)] = "failed"
  /\ IsPrefix(SubSeq(trace, 1, Len(trace) - 1), SubSeq(StageOrder, 1, 5))

Occurs(stage, trace) == \E i \in 1..Len(trace) : trace[i] = stage

\* C16: every invocation goes through validate, select-branch,
\* build-request, send, decode, done in that order, each at most once; the
\* request sent is the request built before, and a reply is decoded only
\* after a send that was answered with a success status; a failure in any
\* stage leads straight to the failure terminal state, no later stage being
\* entered.  So a request with no image fails at validate even when its
\* provider is unrecognised, and an unrecognised provider fails at
\* select-branch even when there is no credential.
C16_StagesInOrder ==
  \A p \in Slots :
    /\ IsPrefix(stages[p], StageOrder) \/ CutShort(stages[p])
    /\ Completed(p) <=>
         (Occurs("done", stages[p]) \/ Occurs("failed", stages[p]))
    /\ Completed(p) => (Succeeded(p) <=> stages[p] = StageOrder)
    /\ Occurs("send", stages[p]) <=> outbound[p] # <<>>
    /\ outbound[p] # <<>> =>
         /\ Occurs("build-request", stages[p])
         /\ outbound[p] = <<fetchConfig[p]>>
    /\ Occurs("decode", stages[p]) =>
         /\ response[p] # NoValue
         /\ ~response[p].thrown
         /\ response[p].val.status \in 200..299
    /\ (Completed(p) /\ NoImage(p)) => stages[p] = <<"validate", "failed">>
    /\ (Completed(p) /\ ~NoImage(p) /\ ~IsKnown(request[p].provider)) =>
         stages[p] = <<"validate", "select-branch", "failed">>
    /\ (Completed(p) /\ NonSuccessReply(p)) =>
         stages[p] =
           <<"validate", "select-branch", "build-request", "send", "failed">>

\* C16 witness: a request with no image and an unrecognised provider has
\* failed at validate.
C16_Witness ==
  \E p \in Slots :
    /\ Completed(p)
    /\ request[p].imageBase64 = JUndef
    /\ request[p].provider = JStr("mistral")
    /\ stages[p] = <<"validate", "failed">>

\* C16 second witness: an unrecognised provider without any credential has
\* failed at select-branch.
C16_WitnessSelect ==
  \E p \in Slots :
    /\ Completed(p)
    /\ request[p].provider = JStr("mistral")
    /\ \A n \in HeaderNames : headers[p][n] = JNull
    /\ env = JUndef
    /\ stages[p] = <<"validate", "select-branch", "failed">>

\* C16 third witness: an invocation has gone through every stage.
C16_WitnessDone ==
  \E p \in Slots : pc[p] = "responded" /\ stages[p] = StageOrder

\* What an invocation run alone builds from req and hdrs: the prepared
\* call, or the error thrown before there is one.
SoloBuild(req, hdrs, envKey) ==
  LET v == ValidateRequest(req)
      b == SelectBranch(req.provider)
  IN  IF v.thrown THEN v
      ELSE IF b.thrown THEN b
      ELSE PrepareRequest(b.val, req, SelectUserApiKey(req.provider, hdrs), envKey)

\* How an invocation run alone completes when its call settles as resp
\* (one completion for each reading of the clock).
SoloCompletions(req, hdrs, envKey, resp) ==
  LET b == SoloBuild(req, hdrs, envKey)
  IN  IF b.thrown THEN {CatchBlock(b.err)}
      ELSE IF resp.thrown THEN {CatchBlock(resp.err)}
      ELSE IF ~IsOk(resp.val.status) THEN {CatchBlock(ApiError(resp.val))}
      ELSE IF resp.val.body.json.thrown
           THEN {CatchBlock(resp.val.body.json.err)}
      ELSE LET t == ExtractResultText(req.provider, resp.val.body.json.val)
           IN  IF t.thrown THEN {CatchBlock(t.err)}
               ELSE {Return(SuccessResult(t.val, req.provider, now)) :
                       now \in DateNow}

\* Every slot's request, call and outcome are those of the same invocation
\* run alone on that slot's own inputs.
AsIfAlone ==
  \A p \in Slots :
    /\ fetchConfig[p] # NoValue =>
         fetchConfig[p] = SoloBuild(request[p], headers[p], env).val
    /\ outbound[p] # <<>> =>
         outbound[p] = <<SoloBuild(request[p], headers[p], env).val>>
    /\ Completed(p) =>
         completion[p] \in
           SoloCompletions(request[p], headers[p], env, response[p])
    /\ (Answered(p) /\ Completed(p)) =>
         httpResponse[p] = TranslateResult(completion[p].value)

\* Everything the model keeps for slot p.
SlotState(p) ==
  <<pc[p], request[p], headers[p], userApiKey[p], branch[p], fetchConfig[p],
    outbound[p], response[p], data[p], completion[p], httpResponse[p],
    stages[p]>>

\* A step of one exchange leaves the other exchange, and the environment
\* default, as they were.
OneSlotPerStep ==
  /\ env' = env
  /\ \E p \in Slots : \A q \in Slots \ {p} : SlotState(q)' = SlotState(q)

\* C15: with two exchanges in progress at once, in every interleaving of
\* their steps each invocation builds the request and returns the result
\* it would have built and returned alone, from its own image, provider,
\* headers and reply; no step of one changes anything the other holds.
C15_InvocationsIndependent == []AsIfAlone /\ [][OneSlotPerStep]_vars

\* C15 witness: two exchanges overlap, one an openai request that has
\* succeeded with the caller's key, the other a claude request that has
\* been answered 401, each holding its own call and reply.
C15_Witness ==
  \E p, q \in Slots :
    /\ p # q
    /\ pc[p] = "returned" /\ pc[q] = "returned"
    /\ request[p].provider = JStr("openai") /\ Succeeded(p)
    /\ outbound[p][1].options.headers["Authorization"] = "Bearer user-x-openai-key"
    /\ request[q].provider = JStr("claude")
    /\ FailedWith(q, "API Error (401): Unauthorized")
    /\ outbound[q][1].options.headers["x-api-key"] = "user-x-claude-key"

\* The last call was op(provider), made by a user whose stored key for
\* that provider is missing or blank / is there.
LastCallWas(op) == lastCall # NoValue /\ lastCall.op = op

Keyless(provider) ==
  \/ settingsStore = NoValue
  \/ settingsStore.apiKeys[provider] = JUndef
  \/ \A i \in 1..Len(settingsStore.apiKeys[provider].v) :
       settingsStore.apiKeys[provider].v[i] = " "

\* The counter a call finds once a due reset has been applied to it.
CountFound(saved, shared, t) ==
  loadUsageLimits(saved, shared, t).limits.processedImages.count

\* The counter as it is now: the stored one, or the in-memory default
\* while nothing is stored.
CountNow ==
  IF usageStore # NoValue THEN usageStore.processedImages.count
  ELSE defaultUsageLimits.processedImages.count

\* C17: without an own key, at most 2 trackImageProcessed calls report
\* success within any 24 hours, over every sequence of calls and clock
\* advances; and a call that finds the count at 2 reports success false
\* with remaining 0 and leaves the counter as it was.
C17_AtMostTwoInAnyDay ==
  /\ Len(successLog) <= MAX_IMAGES_PER_DAY
  /\ ( /\ LastCallWas("trackImageProcessed")
       /\ Keyless(lastCall.provider)
       /\ CountFound(lastCall.savedBefore, lastCall.sharedBefore, clock)
            >= MAX_IMAGES_PER_DAY ) =>
       /\ lastCall.result = [success |-> FALSE, remaining |-> 0]
       /\ CountNow = MAX_IMAGES_PER_DAY
       /\ usageStore = lastCall.savedBefore
       /\ defaultUsageLimits = lastCall.sharedBefore

\* The second half of C17 alone: the refusal at the limit.
RefusedAtLimit ==
  ( /\ LastCallWas("trackImageProcessed")
    /\ Keyless(lastCall.provider)
    /\ CountFound(lastCall.savedBefore, lastCall.sharedBefore, clock)
         >= MAX_IMAGES_PER_DAY ) =>
    /\ lastCall.result = [success |-> FALSE, remaining |-> 0]
    /\ usageStore = lastCall.savedBefore

\* Three keyless successes at one and the same instant.
ThreeAtOnce ==
  /\ Len(successLog) = 3
  /\ successLog[1] = successLog[3]

\* C18: for a provider with a non-blank key stored, trackImageProcessed
\* always reports success with remaining 2 and getRemainingImageCount
\* always returns 2, whatever the counter and the clock, and neither call
\* changes the stored counter or the last-reset time.
C18_OwnKeyLiftsTheLimit ==
  ( /\ lastCall # NoValue
    /\ lastCall.op \in {"trackImageProcessed", "getRemainingImageCount"}
    /\ ~Keyless(lastCall.provider) ) =>
    /\ lastCall.op = "trackImageProcessed" =>
         lastCall.result = [success |-> TRUE, remaining |-> 2]
    /\ lastCall.op = "getRemainingImageCount" => lastCall.result = 2
    /\ usageStore = lastCall.savedBefore
    /\ defaultUsageLimits = lastCall.sharedBefore

\* C18 witness: trackImageProcessed has succeeded for a provider with a
\* key while the counter stood at 2 and more than 24 hours had passed
\* since the last reset; another provider's key is blank.
C18_Witness ==
  /\ LastCallWas("trackImageProcessed")
  /\ ~Keyless(lastCall.provider)
  /\ \E other \in LLMProviders \ {lastCall.provider} :
       settingsStore.apiKeys[other] = JStr(<<" ", " ">>)
  /\ usageStore # NoValue
  /\ usageStore.processedImages.count = 2
  /\ clock - usageStore.processedImages.lastResetTime > HOURS_24
  /\ lastCall.result.success

\* C18 second witness: getRemainingImageCount has returned 2 for a provider
\* with a key while the counter stood at 2.
C18_WitnessRemaining ==
  /\ LastCallWas("getRemainingImageCount")
  /\ ~Keyless(lastCall.provider)
  /\ usageStore # NoValue
  /\ usageStore.processedImages.count = 2
  /\ lastCall.result = 2

\* The usage limits in effect before the last call: the stored ones, or the
\* in-memory defaults while nothing was stored.
LimitsBefore ==
  IF lastCall.savedBefore # NoValue THEN lastCall.savedBefore
  ELSE lastCall.sharedBefore

\* 24 hours have passed since the last reset known before the last call.
WindowElapsed ==
  clock - LimitsBefore.processedImages.lastResetTime >= HOURS_24

\* C19: loadUsageLimits resets the counter if 24 hours have passed since
\* the last reset, returning count 0 with lastResetTime = now and storing
\* that; otherwise it returns the count and lastResetTime as they were and
\* writes nothing.  So a keyless user at the limit tracks successfully
\* again once the window has elapsed.
C19_ResetWhenWindowElapsed ==
  /\ LastCallWas("loadUsageLimits") =>
       IF WindowElapsed
       THEN /\ lastCall.result = UsageLimits(0, clock)
            /\ usageStore = UsageLimits(0, clock)
       ELSE /\ lastCall.result = LimitsBefore
            /\ usageStore = lastCall.savedBefore
  /\ ( /\ LastCallWas("trackImageProcessed")
       /\ Keyless(lastCall.provider)
       /\ LimitsBefore.processedImages.count >= MAX_IMAGES_PER_DAY
       /\ WindowElapsed ) => lastCall.result.success

\* The reset as the code makes it: only for a stored counter, and only
\* when more than 24 hours have passed.
ResetWhenStoredAndOverdue ==
  LastCallWas("loadUsageLimits") =>
    IF /\ lastCall.savedBefore # NoValue
       /\ clock - lastCall.savedBefore.processedImages.lastResetTime > HOURS_24
    THEN /\ lastCall.result = UsageLimits(0, clock)
         /\ usageStore = UsageLimits(0, clock)
    ELSE /\ lastCall.result = LimitsBefore
         /\ usageStore = lastCall.savedBefore

\* Exactly 24 hours after the last reset the stored counter is returned
\* as it is, at the limit.
NotResetAtExactly24h ==
  /\ LastCallWas("loadUsageLimits")
  /\ lastCall.savedBefore # NoValue
  /\ clock - lastCall.savedBefore.processedImages.lastResetTime = HOURS_24
  /\ lastCall.result.processedImages.count = MAX_IMAGES_PER_DAY

\* trackImageProcessed, called now for the page's provider, would report
\* success: the provider has a key, or fewer than 2 images are counted.
TrackWouldSucceed ==
  \/ ~Keyless(page.provider)
  \/ CountFound(usageStore, defaultUsageLimits, clock) < MAX_IMAGES_PER_DAY

\* handleAnalyze, were it called now with no image selected, would set the
\* upload error and change nothing else: no request, no tracking, the
\* counter as it was.
NoImageNoRequest ==
  LET blank == [page EXCEPT !.imageBase64 = ""]
      h == handleAnalyze(blank, settingsStore, usageStore, defaultUsageLimits,
                         clock)
  IN  /\ h.fetch = NoValue
      /\ ~h.tracked
      /\ h.saved = usageStore
      /\ h.shared = defaultUsageLimits
      /\ h.page = [blank EXCEPT !.error = JStr("Please upload an image first")]

\* A call of handleAnalyze sends one request to /api/analyze if an image
\* is selected and the tracking succeeds, and none otherwise; refused at
\* the limit it sets the limit error and stays out of the loading and
\* results states.  Nothing else sends a request.
AnalyzeSendsWhenAllowed ==
  /\ requests' # requests => analyzeCalls' # analyzeCalls
  /\ analyzeCalls' # analyzeCalls =>
       /\ (requests' # requests) <=> (page.imageBase64 # "" /\ TrackWouldSucceed)
       /\ requests' # requests =>
            /\ Len(requests') = Len(requests) + 1
            /\ SubSeq(requests', 1, Len(requests)) = requests
            /\ requests'[Len(requests')].call.url = "/api/analyze"
            /\ requests'[Len(requests')].call.body.imageBase64 = page.imageBase64
            /\ inflight' = inflight \cup {Len(requests')}
       /\ requests' = requests => inflight' = inflight
       /\ (page.imageBase64 # "" /\ ~TrackWouldSucceed) =>
            /\ page' = [page EXCEPT !.error = LimitMessage(page)]
            /\ ~page'.isLoading
            /\ ~page'.showResults
            /\ usageStore' = usageStore

\* C20: handleAnalyze sends a request to /api/analyze only when an image is
\* selected and trackImageProcessed reported success; with no image it sets
\* an error, sends nothing and leaves the counter unchanged; at the limit it
\* sets the limit error, sends nothing and enters neither the loading nor
\* the results state.
C20_AnalyzeOnlyWhenAllowed ==
  []NoImageNoRequest /\ [][AnalyzeSendsWhenAllowed]_vars

\* C20 witness: with an image selected and two images counted, a third
\* call has been refused: the limit error is shown on the upload view and
\* only two requests were ever sent.
C20_Witness ==
  /\ analyzeCalls = 3
  /\ Len(requests) = 2
  /\ page.imageBase64 # ""
  /\ page.error = LimitMessage(page)
  /\ ~page.isLoading
  /\ ~page.showResults
  /\ usageStore.processedImages.count = 2

\* C20 second witness: a request is on its way and the page is loading.
C20_WitnessSent ==
  /\ inflight = {1}
  /\ requests[1].call.url = "/api/analyze"
  /\ page.isLoading
  /\ page.showResults
  /\ page.error = JNull


(***************************************************************************)
(* The loading flag of the page                                            *)
(***************************************************************************)
LoadingIffInFlight == page.isLoading <=> inflight # {}

\* A message that shows: a string with at least one character.
NonEmptyMessage(e) == e.t = "string" /\ e.v # ""

\* The server answered with an error status, or fetch or json() threw.
ReplyFailed(reply) == reply.thrown \/ ~reply.val.ok

\* A step in which handleAnalyze sends a request turns the flag on.
StartsLoading ==
  Len(requests') > Len(requests) => ~page.isLoading /\ page'.isLoading

\* A step in which a request settles turns the flag off, and leaves a
\* message when the reply was a failure.
SettlingStopsLoading ==
  \A i \in inflight :
    i \notin inflight' =>
      /\ ~page'.isLoading
      /\ \A reply \in AnalyzeReplies(i) :
           (/\ ReplyFailed(reply)
            /\ page' = Resume(page, i, reply, settingsStore, usageStore,
                              defaultUsageLimits, clock).page)
             => NonEmptyMessage(page'.error)

\* C21: isLoading is true exactly while an analysis request is in flight:
\* sending a request turns it on, and when the request settles it is off
\* again whether the analysis succeeded, the server answered with an error
\* status, or fetch or JSON parsing threw; on the failure paths the error
\* state is then a non-empty message.
C21_LoadingWhileInFlight ==
  /\ []LoadingIffInFlight
  /\ [][StartsLoading /\ SettlingStopsLoading]_vars

\* A request failed: loading is over and the message is set.
C21_Witness ==
  /\ Len(requests) > 0
  /\ inflight = {}
  /\ ~page.isLoading
  /\ NonEmptyMessage(page.error)

\* A request is in flight and the page is loading.
C21_WitnessLoading == inflight # {} /\ page.isLoading


(***************************************************************************)
(* The result on the results view                                          *)
(***************************************************************************)
\* The results view is shown and the spinner is gone.
ResultsViewAtRest == page.showResults /\ ~page.isLoading

\* The result ResultDisplay puts on the screen, JNull when it renders
\* nothing.
Displayed == ResultDisplay(page.result, page.isLoading).result

\* The result is the one request i was answered with.
IsResultOf(result, i) ==
  result # JNull /\ result.v.text = "Analysis " \o ToString(i)

\* The most recent request failed: handleAnalyze cleared the error when
\* it sent the request, and only its catch block sets it afterwards.
LatestFailed == page.error # JNull

\* C22: whenever the results view is shown and loading has finished, the
\* result displayed is the result of the most recent analyze request, or
\* nothing when that request failed; a result of an earlier request is
\* never displayed for a later one.
C22_DisplaysLatestResult ==
  ResultsViewAtRest =>
    IF LatestFailed THEN Displayed = JNull
    ELSE IsResultOf(Displayed, Len(requests))

\* The result of an earlier request is on the screen after a later
\* request failed.
StaleResultShown ==
  /\ ResultsViewAtRest
  /\ LatestFailed
  /\ \E i \in 1..(Len(requests) - 1) : IsResultOf(Displayed, i)

\* What the code keeps: the result on the screen is that of the most
\* recent request that succeeded, and after a success it is that
\* request's.
DisplaysLastSuccess ==
  ResultsViewAtRest =>
    /\ Displayed = JNull \/ \E i \in 1..Len(requests) : IsResultOf(Displayed, i)
    /\ ~LatestFailed => IsResultOf(Displayed, Len(requests))


(***************************************************************************)
(* The reset countdown                                                     *)
(***************************************************************************)
\* getResetTimeRemaining was the last call and returned 0.
CountdownAtZero ==
  LastCallWas("getResetTimeRemaining") /\ lastCall.result = 0

\* What getRemainingImageCount(provider) would return if called now.
RemainingNow(provider) ==
  getRemainingImageCount(provider, settingsStore, usageStore,
                         defaultUsageLimits, clock).result

\* Whether trackImageProcessed(provider), called now, would succeed.
TrackSucceedsNow(provider) ==
  trackImageProcessed(provider, settingsStore, usageStore,
                      defaultUsageLimits, clock).result.success

\* getResetTimeRemaining lies between 0 and 24 hours.
CountdownInRange ==
  LastCallWas("getResetTimeRemaining") =>
    0 <= lastCall.result /\ lastCall.result <= HOURS_24

\* C23: the reset countdown and the reset agree: getResetTimeRemaining
\* lies between 0 and 24 hours, and whenever it returns 0 for a keyless
\* user the counter has been reset, so that getRemainingImageCount returns
\* 2 and the next trackImageProcessed succeeds, also at the instant
\* exactly 24 hours after the last reset.
C23_CountdownAgreesWithReset ==
  /\ CountdownInRange
  /\ CountdownAtZero =>
       \A provider \in LLMProviders :
         Keyless(provider) =>
           /\ RemainingNow(provider) = MAX_IMAGES_PER_DAY
           /\ TrackSucceedsNow(provider)

\* The countdown has run out and a keyless user is still refused.
CountdownZeroButRefused ==
  /\ CountdownAtZero
  /\ \E provider \in LLMProviders :
       /\ Keyless(provider)
       /\ RemainingNow(provider) = 0
       /\ ~TrackSucceedsNow(provider)

\* What the code keeps: the countdown is at 0 with the counter not reset
\* only at exactly 24 hours after a stored reset, or with nothing stored;
\* in the latter case nothing is counted yet.
ZeroOnlyAtTheBoundary ==
  CountdownAtZero =>
    \/ /\ usageStore # NoValue
       /\ clock - usageStore.processedImages.lastResetTime = HOURS_24
    \/ /\ usageStore = NoValue
       /\ \A provider \in LLMProviders :
            Keyless(provider) =>
              RemainingNow(provider) = MAX_IMAGES_PER_DAY
                /\ TrackSucceedsNow(provider)

=============================================================================
